---- MODULE Spec2Model ----
(***************************************************************************)
(* A model of the wgslsmith differential-testing core:                     *)
(*   - crates/harness/src/lib.rs      execute (the orchestrator)           *)
(*   - crates/wgslsmith/src/test.rs   reduce_crash / reduce_mismatch       *)
(*   - crates/wgslsmith/src/harness_runner.rs  exec_shader_impl            *)
(*   - crates/reconditioner/src/safe_wrappers  insert_bits, extract_bits   *)
(***************************************************************************)
EXTENDS Integers, Sequences, FiniteSets, TLC

(* ------------------------------ bounds --------------------------------- *)

\* longest requested / default config list
MaxConfigs == 2
\* largest parallelism bound a caller passes (Some(0) .. Some(MaxPar))
MaxPar == 2
\* longest list the default enumeration returns
MaxDefaults == 1
\* longest target list handed to reduce_crash / reduce_mismatch
MaxTargets == 2
\* most output lines of one harness process the oracle looks at
MaxLines == 1
\* longest buffer of a RawBuffers, and the furthest offset of a span
MaxBufLen == 2
\* most executions the iterator handed to compare yields
MaxExecutions == 3
\* most (identifier, canonical form) entries handed to group
MaxEntries == 3
\* longest text parsed as a TargetPath
MaxTextLen == 5
\* most lines a harness process writes before it exits
MaxProcLines == 2
\* most explicit target paths handed to get_targets
MaxTargetPaths == 2
\* most components of a vector handed to a generated wrapper
MaxVecLen == 2

(* ------------------------------ state ---------------------------------- *)

VARIABLES
    \* ---- execute: arguments
    requested,      \* configs: &[ConfigId] as passed by the caller
    parallelism,    \* Option<usize>: <<>> is None, <<p>> is Some(p)
    timeout,        \* Option<Duration>: TRUE iff Some(_)
    \* ---- execute: locals of the calling thread
    default_configs, \* what crate::default_configs() returned: <<>> while
                    \* it has not been called, << list >> once it has
    configs,        \* the slice actually run (requested, or the defaults)
    num_threads,
    spawned,        \* handles.len()
    mpc,            \* position of the calling thread
    joinIdx,        \* next handle the join loop waits for
    closureRet,     \* value the scope closure returned
    ret,            \* value execute returned: <<>> while it has not
    \* ---- execute: shared between the worker threads
    configs_iter,   \* Mutex<slice::Iter>: number of entries consumed
    iterOwner,      \* holder of the configs_iter mutex, 0 when free
    sinkOwner,      \* holder of the on_event mutex, 0 when free
    \* ---- execute: per worker thread
    pc, config, output, result,
    \* ---- the event callback's view, and bookkeeping about it
    events,         \* the ExecutionEvents on_event was called with, in order,
                    \* filed under the execution they were emitted for
                    \* (0: by the caller, before any thread exists)
    exited,         \* per execution: the exit code child.wait() reported
    popped,         \* per entry of configs: how often iter.next() yielded it
    firstErr,       \* the thread that failed first, 0 while none has
    \* ---- test.rs: one run of reduce_crash or reduce_mismatch
    okind,          \* "mismatch", "crash" (options.config given), "remote"
    regex,          \* options.regex
    inverse_regex,  \* options.inverse_regex: <<>> is None, <<p>> is Some(p)
    nTargets,       \* targets.len()
    results,        \* what exec_shader returned for each target run so far
    consensus,      \* Option<Vec<u8>>: <<>> is None, <<b>> is Some(b)
    mismatch_found,
    any_crash_matched,
    response,       \* what the remote validator answered: <<>> while unasked
    opc,            \* position in the function
    verdict         \* what it returned: <<>> while it has not

execVars == << requested, parallelism, timeout, default_configs, configs, num_threads, spawned,
               mpc, joinIdx, closureRet, ret, configs_iter, iterOwner,
               sinkOwner, pc, config, output, result, events, exited,
               popped, firstErr >>

\* state of the interestingness oracle (test.rs), idle while execute runs
oracleVars == << okind, regex, inverse_regex, nTargets, results, consensus,
                 mismatch_found, any_crash_matched, response, opc, verdict >>

VARIABLES
    \* ---- buffer-check: one call of normalize_execution or of compare
    mode,           \* which function is called: "normalize" or "compare"
    pipeline_desc,  \* PipelineDescription.resources: the kind of each resource
    type_descs,     \* per resource, what Type::ranges() yields: (offset, size)
    buffers,        \* normalize_execution's argument: << >> while not passed,
                    \* << list of byte vectors >> once it is
    canonical_data, \* what normalize_execution(buffers, ..) gave
    other,          \* a second RawBuffers put through normalize_execution:
                    \* its result, and how it compares with `buffers`
    prev_normalized, \* compare's local: << >> before the first entry
    forms,          \* per entry compare consumed: what the entry normalized to
    gentries,       \* group's argument: per entry, in input order, its
                    \* canonical form; the entry's identifier is its position
    groups,         \* what group returned: a list of ConsensusEntry
    bpc,            \* position in the function
    bret            \* what compare returned: << >> while it has not

bufVars == << mode, pipeline_desc, type_descs, buffers, canonical_data, other,
              prev_normalized, forms, gentries, groups, bpc, bret >>

VARIABLES
    \* ---- harness_runner.rs: a TargetPath parsed from text and formatted
    arg,            \* the text handed to TargetPath::from_str
    parsed,         \* what from_str returned: << >> while it has not
    formatted,      \* what formatting the parsed TargetPath gave
    tpc             \* position

targetVars == << arg, parsed, formatted, tpc >>

VARIABLES
    \* ---- one call of a function that keeps no state between calls
    callee,         \* the function called
    call_in,        \* its arguments
    call_out,       \* what it returned: << >> while it has not
    call_pc         \* position

callVars == << callee, call_in, call_out, call_pc >>

nonExecVars == << oracleVars, bufVars, targetVars, callVars >>
nonOracleVars == << execVars, bufVars, targetVars, callVars >>
nonBufVars == << execVars, oracleVars, targetVars, callVars >>
nonTargetVars == << execVars, oracleVars, bufVars, callVars >>
nonCallVars == << execVars, oracleVars, bufVars, targetVars >>

vars == << execVars, nonExecVars >>

\* the buffer-check variables while neither of its functions runs
IdleBuf ==
    /\ mode = "none"
    /\ pipeline_desc = <<>>
    /\ type_descs = <<>>
    /\ buffers = <<>>
    /\ canonical_data = <<>>
    /\ other = <<>>
    /\ prev_normalized = <<>>
    /\ forms = <<>>
    /\ gentries = <<>>
    /\ groups = <<>>
    /\ bpc = "idle"
    /\ bret = <<>>

\* the call variables while no such function is called
IdleCall ==
    /\ callee = "none"
    /\ call_in = <<>>
    /\ call_out = <<>>
    /\ call_pc = "idle"

\* the TargetPath variables while no text is parsed
IdleTarget ==
    /\ arg = <<>>
    /\ parsed = <<>>
    /\ formatted = <<>>
    /\ tpc = "idle"

(* --------------------------- value domains ----------------------------- *)

Min(a, b) == IF a < b THEN a ELSE b

\* ConfigIds are opaque; a list of n distinct ones is 1..n in order.
ConfigList(n) == [i \in 1..n |-> i]
ConfigLists == { ConfigList(n) : n \in 0..MaxConfigs }
\* what default_configs() can return on some host
DefaultLists == { ConfigList(n) : n \in 0..Min(MaxDefaults, MaxConfigs) }

\* worker threads that can exist: num_threads <= configs.len()
Threads == 1..MaxConfigs

ParOptions == { <<>> } \cup { <<p>> : p \in 0..MaxPar }

\* what the caller's callback answers to one event
CallbackResults == { "ok", "err" }

\* stderr contents of a failing worker
Diags == { "d1" }
\* stdout contents of a worker that exited 0: a valid Output message or not
Stdouts == { "enc_b1", "truncated" }
\* exit codes of a worker: success, a panic (101), anything else
WorkerExitCodes == { 0, 2, 101 }

WorkerOutputs ==
    { [code |-> 0, stdout |-> s, stderr |-> ""] : s \in Stdouts }
    \cup { [code |-> c, stdout |-> "", stderr |-> d] :
             c \in WorkerExitCodes \ {0}, d \in Diags }

NoOutput == [code |-> 0, stdout |-> "", stderr |-> ""]

\* bincode::decode_from_slice::<ExecutionOutput>
DecodeOutput(stdout) ==
    IF stdout = "enc_b1" THEN [ok |-> TRUE, buffers |-> "b1"]
    ELSE [ok |-> FALSE, buffers |-> ""]

StatusSuccessAlways(code) == TRUE

\* ExitStatus::success
StatusSuccess(code) == code = 0

UsingDefaultConfigsUnlisted(cs) ==
    [tag |-> "UsingDefaultConfigs", config |-> <<>>, data |-> <<>>]

\* ExecutionEvent (printer.rs): Failure and Timeout carry no ConfigId
UsingDefaultConfigs(cs) == [tag |-> "UsingDefaultConfigs", config |-> cs, data |-> <<>>]
Start(c)       == [tag |-> "Start", config |-> <<c>>, data |-> <<>>]
Success(c, b)  == [tag |-> "Success", config |-> <<c>>, data |-> <<b>>]
Failure(err)   == [tag |-> "Failure", config |-> <<>>, data |-> <<err>>]
Timeout        == [tag |-> "Timeout", config |-> <<>>, data |-> <<>>]

Ok == << "Ok" >>
Err(kind, from) == << "Err", kind, from >>
IsErr(r) == Len(r) = 3

(* ------------------------- execute: set-up ----------------------------- *)

NumThreadsUnbounded(par, n) == n

\* lines 106-110
NumThreads(par, n) == IF par # <<>> THEN Min(par[1], n) ELSE n

InitExec ==
    /\ requested \in ConfigLists
    /\ parallelism \in ParOptions
    /\ timeout \in BOOLEAN
    /\ default_configs = <<>>
    /\ configs = <<>>
    /\ num_threads = 0
    /\ spawned = 0
    /\ mpc = "entry"
    /\ joinIdx = 1
    /\ closureRet = <<>>
    /\ ret = <<>>
    /\ configs_iter = 0
    /\ iterOwner = 0
    /\ sinkOwner = 0
    /\ pc = [t \in Threads |-> "unspawned"]
    /\ config = [t \in Threads |-> 0]
    /\ output = [t \in Threads |-> NoOutput]
    /\ result = [t \in Threads |-> <<>>]
    /\ events = [c \in 0..MaxConfigs |-> <<>>]
    /\ exited = [c \in 1..MaxConfigs |-> <<>>]
    /\ popped = [c \in 1..MaxConfigs |-> 0]
    /\ firstErr = 0

NoDefaultsNever(defaults) == FALSE

\* line 93: default_configs.is_empty()
NoDefaults(defaults) == defaults = <<>>

\* one call of the callback: it receives ev, emitted for execution exec
Emit(ev, exec) ==
    events' = [events EXCEPT ![exec] = Append(@, ev)]

\* lines 89-110: choice of the config slice, then the two mutexes
Prologue ==
    /\ mpc = "entry"
    /\ IF requested = <<>>
       THEN \E defaults \in DefaultLists :
              /\ default_configs' = << defaults >>
              /\ IF NoDefaults(defaults)
                 THEN /\ ret' = Err("NoDefaultConfigs", 0)
                      /\ mpc' = "returned"
                      /\ UNCHANGED << configs, num_threads, events, exited >>
                 ELSE \E r \in CallbackResults :
                        /\ Emit(UsingDefaultConfigs(defaults), 0)
                        /\ UNCHANGED exited
                        /\ IF r = "ok"
                           THEN /\ configs' = defaults
                                /\ num_threads' = NumThreads(parallelism, Len(defaults))
                                /\ mpc' = "spawn"
                                /\ ret' = ret
                           ELSE /\ ret' = Err("Callback", 0)
                                /\ mpc' = "returned"
                                /\ UNCHANGED << configs, num_threads >>
       ELSE /\ configs' = requested
            /\ num_threads' = NumThreads(parallelism, Len(requested))
            /\ mpc' = "spawn"
            /\ UNCHANGED << default_configs, ret, events, exited >>
    /\ UNCHANGED << nonExecVars, popped, requested, parallelism, timeout, spawned, joinIdx,
                    closureRet, configs_iter, iterOwner, sinkOwner, pc, config,
                    output, result, firstErr >>

\* lines 115-178: one turn of the spawning loop; the thread starts at once
SpawnThread ==
    /\ mpc = "spawn"
    /\ spawned < num_threads
    /\ spawned' = spawned + 1
    /\ pc' = [pc EXCEPT ![spawned + 1] = "lock_iter"]
    /\ UNCHANGED << nonExecVars, popped, default_configs, requested, parallelism, timeout, configs, num_threads, mpc,
                    joinIdx, closureRet, ret, configs_iter, iterOwner,
                    sinkOwner, config, output, result, events, exited, firstErr >>

\* lines 180-182: handle.join().unwrap()? on the next handle, in spawn order
Join ==
    /\ mpc = "spawn"
    /\ spawned = num_threads
    /\ joinIdx <= num_threads
    /\ result[joinIdx] # <<>>
    /\ IF IsErr(result[joinIdx])
       THEN /\ closureRet' = result[joinIdx]
            /\ mpc' = "scope_exit"
            /\ joinIdx' = joinIdx
       ELSE /\ joinIdx' = joinIdx + 1
            /\ UNCHANGED << closureRet, mpc >>
    /\ UNCHANGED << nonExecVars, popped, default_configs, requested, parallelism, timeout, configs, num_threads,
                    spawned, ret, configs_iter, iterOwner, sinkOwner, pc,
                    config, output, result, events, exited, firstErr >>

\* line 184: every handle joined without an error
JoinDone ==
    /\ mpc = "spawn"
    /\ spawned = num_threads
    /\ joinIdx > num_threads
    /\ closureRet' = Ok
    /\ mpc' = "scope_exit"
    /\ UNCHANGED << nonExecVars, popped, default_configs, requested, parallelism, timeout, configs, num_threads,
                    spawned, joinIdx, ret, configs_iter, iterOwner, sinkOwner,
                    pc, config, output, result, events, exited, firstErr >>

ScopeDoneEarly == TRUE

\* std::thread::scope returns only when every spawned thread has finished
ScopeDone == \A t \in 1..spawned : result[t] # <<>>

\* lines 112, 185: the scope ends and execute returns the closure's value
ScopeExit ==
    /\ mpc = "scope_exit"
    /\ ScopeDone
    /\ ret' = closureRet
    /\ mpc' = "returned"
    /\ UNCHANGED << nonExecVars, popped, default_configs, requested, parallelism, timeout, configs, num_threads,
                    spawned, joinIdx, closureRet, configs_iter, iterOwner,
                    sinkOwner, pc, config, output, result, events, exited, firstErr >>

(* ---------------------- execute: a worker thread ----------------------- *)

FailAndContinue(t, kind) ==
    /\ pc' = [pc EXCEPT ![t] = "lock_iter"]
    /\ UNCHANGED << result, firstErr >>

\* the thread's closure returns Err(kind): the `?` operator
Fail(t, kind) ==
    /\ result' = [result EXCEPT ![t] = Err(kind, t)]
    /\ pc' = [pc EXCEPT ![t] = "done"]
    /\ firstErr' = IF firstErr = 0 THEN t ELSE firstErr

MutexFreeAlways(owner) == TRUE

\* Mutex::lock blocks while another thread holds the guard
MutexFree(owner) == owner = 0

\* line 122: configs_iter.lock()
LockIter(t) ==
    /\ pc[t] = "lock_iter"
    /\ MutexFree(iterOwner)
    /\ iterOwner' = t
    /\ pc' = [pc EXCEPT ![t] = "next"]
    /\ UNCHANGED << nonExecVars, popped, default_configs, requested, parallelism, timeout, configs, num_threads,
                    spawned, mpc, joinIdx, closureRet, ret, configs_iter,
                    sinkOwner, config, output, result, events, exited, firstErr >>

IterAdvancePeek(i) == i

\* slice::Iter::next moves past the entry it yields
IterAdvance(i) == i + 1

\* lines 123-127: iter.next(), then the guard is dropped
IterNext(t) ==
    /\ pc[t] = "next"
    /\ iterOwner' = 0
    /\ IF configs_iter < Len(configs)
       THEN /\ config' = [config EXCEPT ![t] = configs[configs_iter + 1]]
            /\ popped' = [popped EXCEPT ![configs_iter + 1] = @ + 1]
            /\ configs_iter' = IterAdvance(configs_iter)
            /\ pc' = [pc EXCEPT ![t] = "lock_start"]
            /\ UNCHANGED result
       ELSE /\ result' = [result EXCEPT ![t] = Ok]
            /\ pc' = [pc EXCEPT ![t] = "done"]
            /\ UNCHANGED << config, popped, configs_iter >>
    /\ UNCHANGED << nonExecVars, default_configs, requested, parallelism, timeout, configs, num_threads,
                    spawned, mpc, joinIdx, closureRet, ret, sinkOwner, output,
                    events, exited, firstErr >>

\* lines 130, 160, 166: on_event.lock(); next is the pc once the guard is held
LockSink(t, at, next) ==
    /\ pc[t] = at
    /\ MutexFree(sinkOwner)
    /\ sinkOwner' = t
    /\ pc' = [pc EXCEPT ![t] = next]
    /\ UNCHANGED << nonExecVars, popped, default_configs, requested, parallelism, timeout, configs, num_threads,
                    spawned, mpc, joinIdx, closureRet, ret, configs_iter,
                    iterOwner, config, output, result, events, exited, firstErr >>

\* line 130
LockStart(t) == LockSink(t, "lock_start", "cb_start")
\* line 160
LockTimeout(t) == LockSink(t, "lock_timeout", "cb_timeout")
\* line 166
LockTerm(t) == LockSink(t, "lock_term", "classify")

\* line 131: lock(Start(config))?, then the guard is dropped
CallStart(t) ==
    /\ pc[t] = "cb_start"
    /\ Emit(Start(config[t]), config[t])
    /\ UNCHANGED exited
    /\ sinkOwner' = 0
    /\ \E r \in CallbackResults :
         IF r = "ok"
         THEN /\ pc' = [pc EXCEPT ![t] = "spawn"]
              /\ UNCHANGED << result, firstErr >>
         ELSE Fail(t, "Callback")
    /\ UNCHANGED << nonExecVars, popped, default_configs, requested, parallelism, timeout, configs, num_threads,
                    spawned, mpc, joinIdx, closureRet, ret, configs_iter,
                    iterOwner, config, output >>

\* what running one worker process gives the thread (lines 134-158):
\* spawn()? or child.wait()? fails with an io error, writing the Input message
\* fails, the time limit expires (None), or the worker exits (Some(output))
ChildResults(to) ==
    { [kind |-> "io", out |-> NoOutput], [kind |-> "encode", out |-> NoOutput] }
    \cup { [kind |-> "exit", out |-> o] : o \in WorkerOutputs }
    \cup (IF to THEN { [kind |-> "expired", out |-> NoOutput] } ELSE {})
    \cup { [kind |-> "blocked", out |-> NoOutput] }

\* lines 134-158: spawn the worker, write its input, wait for it; nothing
\* shared with the other threads is read or written in between.
\* The input is written to the worker's stdin pipe (lines 143-150) before
\* the time limit is put on the child (lines 152-155): when the worker never
\* reads and the encoded arguments exceed what the pipe holds, the write
\* never returns ("blocked"), whether or not a timeout was given.
RunChild(t) ==
    /\ pc[t] = "spawn"
    /\ \E w \in ChildResults(timeout) :
         CASE w.kind = "io" ->
                /\ Fail(t, "Io")
                /\ UNCHANGED << output, exited >>
           [] w.kind = "encode" ->
                /\ Fail(t, "Encode")
                /\ UNCHANGED << output, exited >>
           [] w.kind = "expired" ->
                /\ pc' = [pc EXCEPT ![t] = "lock_timeout"]
                /\ UNCHANGED << output, exited, result, firstErr >>
           [] w.kind = "blocked" ->
                /\ pc' = [pc EXCEPT ![t] = "write_blocked"]
                /\ UNCHANGED << output, exited, result, firstErr >>
           [] w.kind = "exit" ->
                /\ output' = [output EXCEPT ![t] = w.out]
                /\ exited' = [exited EXCEPT ![config[t]] = << w.out.code >>]
                /\ pc' = [pc EXCEPT ![t] = "lock_term"]
                /\ UNCHANGED << result, firstErr >>
    /\ UNCHANGED << nonExecVars, popped, default_configs, requested, parallelism, timeout, configs, num_threads,
                    spawned, mpc, joinIdx, closureRet, ret, configs_iter,
                    iterOwner, sinkOwner, config, events >>

\* lines 161-162: lock(Timeout)?; continue
CallTimeout(t) ==
    /\ pc[t] = "cb_timeout"
    /\ Emit(Timeout, config[t])
    /\ UNCHANGED exited
    /\ sinkOwner' = 0
    /\ \E r \in CallbackResults :
         IF r = "ok"
         THEN /\ pc' = [pc EXCEPT ![t] = "lock_iter"]
              /\ UNCHANGED << result, firstErr >>
         ELSE Fail(t, "Callback")
    /\ UNCHANGED << nonExecVars, popped, default_configs, requested, parallelism, timeout, configs, num_threads,
                    spawned, mpc, joinIdx, closureRet, ret, configs_iter,
                    iterOwner, config, output >>

\* lines 167-176: classification by output.status.success(), with the guard
\* held; the guard is dropped at the end of the iteration or by `?`
Classify(t) ==
    /\ pc[t] = "classify"
    /\ sinkOwner' = 0
    /\ output' = [output EXCEPT ![t] = NoOutput]
    /\ IF StatusSuccess(output[t].code) /\ ~DecodeOutput(output[t].stdout).ok
       THEN /\ Fail(t, "Decode")
            /\ UNCHANGED events
       ELSE /\ IF StatusSuccess(output[t].code)
               THEN Emit(Success(config[t], DecodeOutput(output[t].stdout).buffers),
                         config[t])
               ELSE Emit(Failure(output[t].stderr), config[t])
            /\ \E r \in CallbackResults :
                 IF r = "ok"
                 THEN /\ pc' = [pc EXCEPT ![t] = "lock_iter"]
                      /\ UNCHANGED << result, firstErr >>
                 ELSE Fail(t, "Callback")
    /\ UNCHANGED << nonExecVars, popped, default_configs, requested, parallelism, timeout, configs, num_threads,
                    spawned, mpc, joinIdx, closureRet, ret, configs_iter,
                    iterOwner, config, exited >>

NextExec ==
    \/ Prologue
    \/ SpawnThread
    \/ Join
    \/ JoinDone
    \/ ScopeExit
    \/ \E t \in Threads : LockIter(t)
    \/ \E t \in Threads : IterNext(t)
    \/ \E t \in Threads : LockStart(t)
    \/ \E t \in Threads : CallStart(t)
    \/ \E t \in Threads : RunChild(t)
    \/ \E t \in Threads : LockTimeout(t)
    \/ \E t \in Threads : CallTimeout(t)
    \/ \E t \in Threads : LockTerm(t)
    \/ \E t \in Threads : Classify(t)

\* the oracle's variables while no oracle runs
IdleOracle ==
    /\ okind = "none"
    /\ regex = ""
    /\ inverse_regex = <<>>
    /\ nTargets = 0
    /\ results = <<>>
    /\ consensus = <<>>
    /\ mismatch_found = FALSE
    /\ any_crash_matched = FALSE
    /\ response = <<>>
    /\ opc = "idle"
    /\ verdict = <<>>

\* a call of execute, from its entry
InitExecRun == InitExec /\ IdleOracle /\ IdleBuf /\ IdleTarget /\ IdleCall

SpecExec == InitExecRun /\ [][NextExec]_vars

\* the steps of the thread that called execute
MainStep == Prologue \/ SpawnThread \/ Join \/ JoinDone \/ ScopeExit

\* the steps of worker thread t
WorkerStep(t) ==
    \/ LockIter(t) \/ IterNext(t) \/ LockStart(t) \/ CallStart(t)
    \/ RunChild(t) \/ LockTimeout(t) \/ CallTimeout(t) \/ LockTerm(t)
    \/ Classify(t)

\* a call of execute under a scheduler that lets every thread that can take
\* a step take one eventually; std::sync::Mutex promises no fairness among
\* waiters, so a lock is only sure to be got once it stays free
SpecExecFair ==
    /\ InitExecRun
    /\ [][NextExec]_vars
    /\ WF_vars(MainStep)
    /\ \A t \in Threads : WF_vars(WorkerStep(t))

(* ------------------- harness_runner.rs: exec_shader -------------------- *)

\* ConsensusEntry { output, configs }
EntryA == [output |-> << 1 >>, configs |-> << "a" >>]
EntryB == [output |-> << 2 >>, configs |-> << "b" >>]
EntryEmpty == [output |-> << >>, configs |-> << "a" >>]
\* lists a harness prints after "output-consensus: "
ConsensusLists ==
    { << >>, << EntryA >>, << EntryB >>, << EntryA, EntryB >>, << EntryEmpty >> }

\* lines of diagnostic text; a pattern is identified with the set of lines
\* it matches, so a Regex is modelled by the lines it accepts
TextLines == { "segmentation fault", "segmentation fault: core dumped", "core dumped" }
ParseErrorLine == "!! Consensus Parse Error"
Patterns == { "segmentation fault", "core dumped" }
LinesMatching(pattern) ==
    IF pattern = "segmentation fault"
    THEN { "segmentation fault", "segmentation fault: core dumped" }
    ELSE IF pattern = "core dumped"
    THEN { "segmentation fault: core dumped", "core dumped" }
    ELSE { }

\* Regex::is_match on a text of several lines: some line matches
is_match(pattern, text) == \E i \in DOMAIN text : text[i] \in LinesMatching(pattern)

SeqUpTo(S, n) == UNION { [1..k -> S] : k \in 0..n }

\* one line a harness process writes to stdout or stderr
ProcLines ==
    { [kind |-> "consensus", list |-> l, text |-> ""] : l \in ConsensusLists }
    \cup { [kind |-> "malformed", list |-> << >>, text |-> ""] }
    \cup { [kind |-> "text", list |-> << >>, text |-> w] : w \in TextLines }

\* ExitStatus::code(): <<>> is None (killed by a signal)
ProcCodes == { << >>, << 0 >>, << 1 >>, << 2 >>, << 101 >> }

\* a harness process as exec_shader_impl sees it: its lines in arrival
\* order, then its exit status
HarnessProcs(n) == [code : ProcCodes, lines : SeqUpTo(ProcLines, n)]

\* ExecutionResult, and the Err of eyre::Result
ResSuccess(buffer) == [tag |-> "Success", payload |-> buffer, list |-> << >>, output |-> << >>]
ResMismatch(l)     == [tag |-> "Mismatch", payload |-> << >>, list |-> l, output |-> << >>]
ResCrash(out)      == [tag |-> "Crash", payload |-> << >>, list |-> << >>, output |-> out]
ResError           == [tag |-> "Error", payload |-> << >>, list |-> << >>, output |-> << >>]

RECURSIVE ReadLinesKeepFirstList(_)
ReadLinesKeepFirstList(lines) ==
    IF lines = << >> THEN [output |-> << >>, consensus_list |-> << >>]
    ELSE LET before == ReadLinesKeepFirstList(SubSeq(lines, 1, Len(lines) - 1))
             line == lines[Len(lines)]
         IN  IF line.kind = "consensus"
             THEN IF before.consensus_list = << >>
                  THEN [before EXCEPT !.consensus_list = line.list]
                  ELSE before
             ELSE IF line.kind = "malformed"
             THEN [before EXCEPT !.output = Append(@, ParseErrorLine)]
             ELSE [before EXCEPT !.output = Append(@, line.text)]

\* lines 199-213: the line callback, folded over the lines read so far;
\* the state is (output, consensus_list)
RECURSIVE ReadLines(_)
ReadLines(lines) ==
    IF lines = << >> THEN [output |-> << >>, consensus_list |-> << >>]
    ELSE LET before == ReadLines(SubSeq(lines, 1, Len(lines) - 1))
             line == lines[Len(lines)]
         IN  IF line.kind = "consensus"
             THEN [before EXCEPT !.consensus_list = line.list]
             ELSE IF line.kind = "malformed"
             THEN [before EXCEPT !.output = Append(@, ParseErrorLine)]
             ELSE [before EXCEPT !.output = Append(@, line.text)]

\* lines 196-226
exec_shader_impl(proc) ==
    LET read == ReadLines(proc.lines)
    IN  IF proc.code = << >> THEN ResError
        ELSE IF proc.code = << 0 >>
        THEN ResSuccess(IF read.consensus_list = << >> THEN << >>
                        ELSE read.consensus_list[1].output)
        ELSE IF proc.code = << 1 >> THEN ResMismatch(read.consensus_list)
        ELSE IF proc.code = << 101 >> THEN ResCrash(read.output)
        ELSE ResError

\* every value exec_shader can hand to the oracle; spawning the process,
\* writing the shader to it or waiting for it can fail as well (ResError)
ExecResults == { exec_shader_impl(p) : p \in HarnessProcs(MaxLines) } \cup { ResError }

(* --------------- test.rs: reduce_crash / reduce_mismatch --------------- *)

OracleKinds == { "mismatch", "crash", "remote" }

VerdictOk == << "Ok" >>
VerdictErr(why) == << "Err", why >>

\* the validator's answer: ValidateResponse::Success or Failure(err)
ValidateResponses ==
    { [ok |-> TRUE, err |-> << >>] }
    \cup { [ok |-> FALSE, err |-> e] : e \in SeqUpTo(TextLines, MaxLines) }

InitOracle ==
    /\ okind \in OracleKinds
    /\ regex = "segmentation fault"
    /\ inverse_regex \in (IF okind = "mismatch" THEN { << >> }
                          ELSE { << >> } \cup { << p >> : p \in Patterns })
    /\ nTargets \in (IF okind = "remote" THEN { 1 } ELSE 1..MaxTargets)
    /\ results = << >>
    /\ consensus = << >>
    /\ mismatch_found = FALSE
    /\ any_crash_matched = FALSE
    /\ response = << >>
    /\ opc = "start"
    /\ verdict = << >>

\* lines 196-203: parse, recondition, validate with both compilers
MismatchValidate ==
    /\ okind = "mismatch"
    /\ opc = "start"
    /\ \E valid \in BOOLEAN :
         IF valid
         THEN /\ opc' = "scan"
              /\ UNCHANGED verdict
         ELSE /\ opc' = "done"
              /\ verdict' = VerdictErr("validate")
    /\ UNCHANGED << nonOracleVars, okind, regex, inverse_regex, nTargets,
                    results, consensus, mismatch_found, any_crash_matched,
                    response >>

MismatchBodyNoCrossCheck(cons, r) ==
    IF r.tag = "Mismatch"
    THEN [consensus |-> cons, found |-> TRUE, brk |-> TRUE]
    ELSE IF r.tag = "Success" /\ r.payload # << >> /\ cons = << >>
    THEN [consensus |-> << r.payload >>, found |-> FALSE, brk |-> FALSE]
    ELSE [consensus |-> cons, found |-> FALSE, brk |-> FALSE]

MismatchBodyNoSkip(cons, r) ==
    IF r.tag = "Mismatch"
    THEN [consensus |-> cons, found |-> TRUE, brk |-> TRUE]
    ELSE IF r.tag = "Success"
    THEN IF cons # << >>
         THEN IF r.payload # cons[1]
              THEN [consensus |-> cons, found |-> TRUE, brk |-> TRUE]
              ELSE [consensus |-> cons, found |-> FALSE, brk |-> FALSE]
         ELSE [consensus |-> << r.payload >>, found |-> FALSE, brk |-> FALSE]
    ELSE [consensus |-> cons, found |-> FALSE, brk |-> FALSE]

\* lines 212-237: the match on one target's result. Success carries the
\* byte vector exec_shader_impl built with unwrap_or_default (line 218), so
\* the payload test of line 218 of test.rs is a test for the empty vector.
MismatchBody(cons, r) ==
    IF r.tag = "Mismatch"
    THEN [consensus |-> cons, found |-> TRUE, brk |-> TRUE]
    ELSE IF r.tag = "Success"
    THEN IF r.payload = << >>
         THEN [consensus |-> cons, found |-> FALSE, brk |-> FALSE]
         ELSE IF cons # << >>
         THEN IF r.payload # cons[1]
              THEN [consensus |-> cons, found |-> TRUE, brk |-> TRUE]
              ELSE [consensus |-> cons, found |-> FALSE, brk |-> FALSE]
         ELSE [consensus |-> << r.payload >>, found |-> FALSE, brk |-> FALSE]
    ELSE [consensus |-> cons, found |-> FALSE, brk |-> FALSE]

\* lines 205-238: one turn of the loop over the targets
MismatchIter ==
    /\ okind = "mismatch"
    /\ opc = "scan"
    /\ \E r \in ExecResults :
         /\ results' = Append(results, r)
         /\ IF r.tag = "Error"
            THEN /\ opc' = "done"
                 /\ verdict' = VerdictErr("exec_shader")
                 /\ UNCHANGED << consensus, mismatch_found >>
            ELSE LET b == MismatchBody(consensus, r)
                 IN  /\ consensus' = b.consensus
                     /\ mismatch_found' = (mismatch_found \/ b.found)
                     /\ opc' = IF b.brk \/ Len(results) + 1 >= nTargets
                               THEN "after_loop" ELSE "scan"
                     /\ UNCHANGED verdict
    /\ UNCHANGED << nonOracleVars, okind, regex, inverse_regex, nTargets,
                    any_crash_matched, response >>

\* lines 240-244
MismatchEnd ==
    /\ okind = "mismatch"
    /\ opc = "after_loop"
    /\ opc' = "done"
    /\ verdict' = IF ~mismatch_found THEN VerdictErr("not interesting") ELSE VerdictOk
    /\ UNCHANGED << nonOracleVars, okind, regex, inverse_regex, nTargets,
                    results, consensus, mismatch_found, any_crash_matched,
                    response >>

CrashMatchesAnyCrash(re, inv, r) == r.tag = "Crash"

CrashMatchesNoExclusion(re, inv, r) == r.tag = "Crash" /\ is_match(re, r.output)

\* line 160: the matches! guard on one target's result
CrashMatches(re, inv, r) ==
    /\ r.tag = "Crash"
    /\ is_match(re, r.output)
    /\ ~ (IF inv # << >> THEN is_match(inv[1], r.output) ELSE FALSE)

\* lines 136-145: the unwraps and the reconditioning, nothing can fail
CrashStart ==
    /\ okind \in { "crash", "remote" }
    /\ opc = "start"
    /\ opc' = IF okind = "crash" THEN "scan" ELSE "remote"
    /\ UNCHANGED << nonOracleVars, okind, regex, inverse_regex, nTargets,
                    results, consensus, mismatch_found, any_crash_matched,
                    response, verdict >>

\* lines 149-165: one turn of the loop over the targets
CrashIter ==
    /\ okind = "crash"
    /\ opc = "scan"
    /\ \E r \in ExecResults :
         /\ results' = Append(results, r)
         /\ IF r.tag = "Error"
            THEN /\ opc' = "done"
                 /\ verdict' = VerdictErr("exec_shader")
                 /\ UNCHANGED any_crash_matched
            ELSE /\ any_crash_matched' =
                        (any_crash_matched \/ CrashMatches(regex, inverse_regex, r))
                 /\ opc' = IF CrashMatches(regex, inverse_regex, r)
                              \/ Len(results) + 1 >= nTargets
                           THEN "after_loop" ELSE "scan"
                 /\ UNCHANGED verdict
    /\ UNCHANGED << nonOracleVars, okind, regex, inverse_regex, nTargets,
                    consensus, mismatch_found, response >>

\* lines 166, 183-187: interesting = any_crash_matched
CrashEnd ==
    /\ okind = "crash"
    /\ opc = "after_loop"
    /\ opc' = "done"
    /\ verdict' = IF ~any_crash_matched THEN VerdictErr("not interesting") ELSE VerdictOk
    /\ UNCHANGED << nonOracleVars, okind, regex, inverse_regex, nTargets,
                    results, consensus, mismatch_found, any_crash_matched,
                    response >>

\* lines 273-282: remote_validate's verdict on the validator's answer
RemoteInteresting(re, resp) == IF resp.ok THEN FALSE ELSE is_match(re, resp.err)

\* lines 168-187 and 258-285: compile, ask the remote validator, judge
RemoteValidate ==
    /\ okind = "remote"
    /\ opc = "remote"
    /\ opc' = "done"
    /\ \E step \in { "compile_err", "spirv", "server_err", "answer" } :
         CASE step = "compile_err" ->
                /\ verdict' = VerdictErr("compile")
                /\ UNCHANGED response
           [] step = "spirv" ->
                /\ verdict' = << "Panic" >>
                /\ UNCHANGED response
           [] step = "server_err" ->
                /\ verdict' = VerdictErr("validate")
                /\ UNCHANGED response
           [] step = "answer" ->
                \E resp \in ValidateResponses :
                  /\ response' = << resp >>
                  /\ verdict' = IF ~RemoteInteresting(regex, resp)
                                THEN VerdictErr("not interesting") ELSE VerdictOk
    /\ UNCHANGED << nonOracleVars, okind, regex, inverse_regex, nTargets,
                    results, consensus, mismatch_found, any_crash_matched >>

NextOracle ==
    \/ MismatchValidate
    \/ MismatchIter
    \/ MismatchEnd
    \/ CrashStart
    \/ CrashIter
    \/ CrashEnd
    \/ RemoteValidate

\* execute's variables while the oracle runs
IdleExec ==
    /\ requested = << >>
    /\ parallelism = << >>
    /\ timeout = FALSE
    /\ default_configs = << >>
    /\ configs = << >>
    /\ num_threads = 0
    /\ spawned = 0
    /\ mpc = "idle"
    /\ joinIdx = 1
    /\ closureRet = << >>
    /\ ret = << >>
    /\ configs_iter = 0
    /\ iterOwner = 0
    /\ sinkOwner = 0
    /\ pc = [t \in Threads |-> "unspawned"]
    /\ config = [t \in Threads |-> 0]
    /\ output = [t \in Threads |-> NoOutput]
    /\ result = [t \in Threads |-> << >>]
    /\ events = [c \in 0..MaxConfigs |-> << >>]
    /\ exited = [c \in 1..MaxConfigs |-> << >>]
    /\ popped = [c \in 1..MaxConfigs |-> 0]
    /\ firstErr = 0

\* a call of reduce_crash or reduce_mismatch, from its entry
InitOracleRun == InitOracle /\ IdleExec /\ IdleBuf /\ IdleTarget /\ IdleCall

SpecOracle == InitOracleRun /\ [][NextOracle]_vars

(* ----------------------- oracle: claims C5-C9 -------------------------- *)

NoExecError == \A i \in DOMAIN results : results[i].tag # "Error"
OracleDone(kind) == okind = kind /\ opc = "done"
NonEmptySuccess(r) == r.tag = "Success" /\ Len(r.payload) > 0
EmptySuccess(r) == r.tag = "Success" /\ Len(r.payload) = 0

\* the first non-empty Success among rs[1..i-1], as an Option
ReferenceBefore(rs, i) ==
    LET I == { j \in 1..(i - 1) : NonEmptySuccess(rs[j]) }
    IN  IF I = { } THEN << >>
        ELSE << rs[CHOOSE j \in I : \A k \in I : j <= k].payload >>

\* target i settles the mismatch oracle: it reports Mismatch, or its
\* non-empty Success differs from the first non-empty Success before it
Decisive(rs, i) ==
    \/ rs[i].tag = "Mismatch"
    \/ /\ NonEmptySuccess(rs[i])
       /\ ReferenceBefore(rs, i) # << >>
       /\ ReferenceBefore(rs, i)[1] # rs[i].payload

\* C5: the mismatch-seeking oracle reports interesting whenever any
\* scanned target yields a Crash result, also when no target reports a
\* Mismatch and all Success outputs agree.
C5_AnyCrashIsInteresting ==
    (OracleDone("mismatch") /\ NoExecError
        /\ \E i \in DOMAIN results : results[i].tag = "Crash")
    => verdict = VerdictOk

\* C6: scanning targets in order, the mismatch-seeking oracle reports
\* interesting as soon as a target returns Mismatch or a non-empty Success
\* differing from the first non-empty Success seen earlier; the reference is
\* the first non-empty Success and is never replaced; no later target is
\* executed once the verdict is reached.
C6_FirstDecisiveTargetSettles ==
    okind = "mismatch" =>
      /\ consensus = ReferenceBefore(results, Len(results) + 1)
      /\ \A i \in DOMAIN results :
           Decisive(results, i) =>
             /\ i = Len(results)
             /\ mismatch_found
             /\ opc \in { "after_loop", "done" }
      /\ (opc = "done" /\ \E i \in DOMAIN results : Decisive(results, i))
           => verdict = VerdictOk

\* C6 witness: the second target's non-empty Success differs from the
\* first target's, which is the reference, and the verdict is interesting.
C6_Witness ==
    /\ OracleDone("mismatch")
    /\ Len(results) = 2
    /\ NonEmptySuccess(results[1]) /\ NonEmptySuccess(results[2])
    /\ results[1].payload # results[2].payload
    /\ consensus = << results[1].payload >>
    /\ verdict = VerdictOk

C7_WitnessAllEmpty ==
    /\ OracleDone("mismatch")
    /\ Len(results) = 2
    /\ EmptySuccess(results[1]) /\ EmptySuccess(results[2])
    /\ consensus = << >>

\* a Crash whose text matches the required pattern and not the exclusion
CrashHit(r) ==
    /\ r.tag = "Crash"
    /\ \E i \in DOMAIN r.output : r.output[i] \in LinesMatching(regex)
    /\ \/ inverse_regex = << >>
       \/ \A i \in DOMAIN r.output : r.output[i] \notin LinesMatching(inverse_regex[1])

\* C8: the crash-seeking oracle over a target list is interesting iff some
\* target's result is a Crash whose text matches the required pattern and
\* not the exclusion pattern (when given); Success and Mismatch results
\* never make it interesting; the scan stops at the first such target.
C8_CrashOracleIffMatchingCrash ==
    okind = "crash" =>
      /\ (opc = "done" /\ NoExecError) =>
           (verdict = VerdictOk <=> \E i \in DOMAIN results : CrashHit(results[i]))
      /\ (opc = "done" /\ ~ \E i \in DOMAIN results : results[i].tag = "Crash")
           => verdict # VerdictOk
      /\ \A i \in DOMAIN results :
           CrashHit(results[i]) => (i = Len(results) /\ opc # "scan")

\* C8 witness: with an exclusion pattern, the first target's crash text
\* matches both patterns and is passed over, the second target's matches
\* only the required one, and the verdict is interesting.
C8_Witness ==
    /\ OracleDone("crash")
    /\ inverse_regex = << "core dumped" >>
    /\ Len(results) = 2
    /\ results[1] = ResCrash(<< "segmentation fault: core dumped" >>)
    /\ results[2] = ResCrash(<< "segmentation fault" >>)
    /\ verdict = VerdictOk

\* C8 witness of the early stop: the first of two targets settles it.
C8_WitnessStop ==
    /\ OracleDone("crash")
    /\ nTargets = 2
    /\ Len(results) = 1
    /\ verdict = VerdictOk

\* C9: when the crash-seeking oracle resolves to the remote validation
\* call, the failure text is judged by the same two patterns: interesting
\* only if it matches the required pattern and not the exclusion pattern.
C9_RemoteFailureJudgedByBothPatterns ==
    (OracleDone("remote") /\ response # << >> /\ verdict = VerdictOk) =>
      /\ ~response[1].ok
      /\ \E i \in DOMAIN response[1].err : response[1].err[i] \in LinesMatching(regex)
      /\ \/ inverse_regex = << >>
         \/ \A i \in DOMAIN response[1].err :
              response[1].err[i] \notin LinesMatching(inverse_regex[1])

(* --------------------- execute: claims C1-C4, C10 ---------------------- *)

IsTerminal(e) == e.tag \in { "Success", "Failure", "Timeout" }
StartsOf(c) == { i \in DOMAIN events[c] : events[c][i].tag = "Start" }
TerminalsOf(c) == { i \in DOMAIN events[c] : IsTerminal(events[c][i]) }
Returned == ret # <<>>
Spawned == 1..spawned
Failed(t) == IsErr(result[t])

\* the callback saw, for execution c, one Start and then one terminal event
RanOnce(c) ==
    /\ Len(events[c]) = 2
    /\ events[c][1].tag = "Start"
    /\ IsTerminal(events[c][2])

\* C1: whenever execute returns Ok, the callback has received, for every
\* requested ConfigId, exactly one Start event and exactly one terminal
\* event (Success, Failure or Timeout), the Start first -- for any list and
\* any parallelism bound.
C1_OkMeansEveryConfigRanOnce ==
    ret = Ok => \A i \in 1..Len(configs) : RanOnce(configs[i])

\* C1, what the code does keep: the same whenever at least one worker
\* thread exists (parallelism is None or Some(p) with p >= 1).
C1_OkWithAWorkerMeansEveryConfigRanOnce ==
    (ret = Ok /\ num_threads >= 1) => \A i \in 1..Len(configs) : RanOnce(configs[i])

\* executions in flight: Start emitted, no terminal event and no error yet
InFlight ==
    { c \in 1..MaxConfigs :
        /\ StartsOf(c) # {}
        /\ TerminalsOf(c) = {}
        /\ ~ \E t \in Threads : config[t] = c /\ Failed(t) }

\* C2: at every instant the number of executions in flight is at most
\* min(P, N) under a parallelism bound P over N configs, and at most N
\* with no bound.
C2_InFlightAtMostMinPN ==
    Cardinality(InFlight) <=
        (IF parallelism = <<>> THEN Len(configs)
         ELSE IF parallelism[1] < Len(configs) THEN parallelism[1]
         ELSE Len(configs))

\* C2 witness: bound 1 over two configs, one execution in flight and the
\* other config still waiting in the cursor.
C2_Witness ==
    /\ parallelism = << 1 >>
    /\ Len(configs) = 2
    /\ Cardinality(InFlight) = 1
    /\ configs_iter < Len(configs)

\* C3: in every run, also one that ends in an error, each entry of the
\* config list is popped at most once, no two threads hold the same
\* ConfigId, and no ConfigId receives a second Start event.
C3_EachEntryPoppedOnce ==
    /\ \A c \in 1..MaxConfigs : popped[c] <= 1 /\ Cardinality(StartsOf(c)) <= 1
    /\ \A t, u \in Threads : (t # u /\ config[t] # 0) => config[t] # config[u]

\* C3 witness: two threads have each popped an entry, one of them has
\* failed, and execute has returned that error.
C3_Witness ==
    /\ Returned /\ IsErr(ret)
    /\ \E t, u \in Threads : t # u /\ config[t] # 0 /\ config[u] # 0 /\ Failed(t)

\* C4: a worker that exits with a code other than 0 or 101 makes execute
\* return an error and yields no Failure or Success event; only 101 yields
\* a Failure event (with the worker's stderr), only 0 a Success event.
C4_OnlyExit101IsAFailureEvent ==
    /\ \A c \in 1..MaxConfigs : \A i \in DOMAIN events[c] :
         /\ events[c][i].tag = "Failure" => exited[c] = << 101 >>
         /\ events[c][i].tag = "Success" => exited[c] = << 0 >>
    /\ ret = Ok => \A c \in 1..MaxConfigs : exited[c] \in { <<>>, << 0 >>, << 101 >> }

\* the failed thread whose handle comes first in `handles`
FirstFailedHandle == CHOOSE t \in Spawned : Failed(t) /\ \A u \in Spawned : Failed(u) => t <= u

\* the parts of C10 that do not depend on which error is returned:
\* a failed thread is finished and pulls nothing more, a thread that ended
\* without an error did so on an empty cursor, and execute returns only
\* once every thread has finished
C10_Common ==
    /\ \A t \in Spawned : Failed(t) => pc[t] = "done"
    /\ \A t \in Spawned : result[t] = Ok => configs_iter >= Len(configs)
    /\ Returned => \A t \in Spawned : result[t] # <<>>

\* C10 as claimed: ... and the error execute returns is the first one
\* that occurred.
C10_ReturnsFirstErrorThatOccurred ==
    /\ C10_Common
    /\ (Returned /\ IsErr(ret) /\ ret[3] # 0) => ret[3] = firstErr

\* C10 as amended: ... and the error execute returns is the one of the
\* failed thread that was spawned first (join order), whether or not it
\* was the first to occur; it returns Ok only if no thread failed.
C10_ReturnsErrorOfFirstFailedHandle ==
    /\ C10_Common
    /\ (Returned /\ IsErr(ret) /\ ret[3] # 0) => ret = result[FirstFailedHandle]
    /\ (Returned /\ ret = Ok) => \A t \in Spawned : ~Failed(t)

\* C10 witness: the callback failed in two threads, the later-spawned one
\* first, and execute returned the error of the earlier-spawned one.
C10_Witness ==
    /\ Returned /\ IsErr(ret)
    /\ ret[2] = "Callback" /\ ret[3] = 1
    /\ firstErr = 2
    /\ Failed(1) /\ Failed(2)

(* ------------- execute: outcomes, errors and the event sink ------------- *)

\* C11: every Failure and Timeout event identifies the ConfigId of the
\* execution it terminates, so that a consumer of the interleaved stream
\* can attribute each terminal event to the config that produced it.
C11_TerminalEventsNameTheirConfig ==
    \A c \in 1..MaxConfigs : \A i \in DOMAIN events[c] :
        events[c][i].tag \in { "Failure", "Timeout" } => events[c][i].config = << c >>

\* thread t is between the expiry of its worker's time limit and the
\* delivery of the Timeout event
TimedOut(t) == pc[t] \in { "lock_timeout", "cb_timeout" }
\* the worker of execution c has exited and its classification is over
Classified(c) ==
    /\ exited[c] # <<>>
    /\ ~ \E t \in Threads : config[t] = c /\ pc[t] \in { "lock_term", "classify" }

\* C12: a timeout or a worker crash (exit code 101) ends only that one
\* execution: the timed-out execution gets exactly one Timeout event and no
\* Success or Failure, the crashed one exactly one Failure event, the thread
\* then goes back to the cursor (it ends without an error only on an empty
\* cursor), and execute returns Ok when no thread failed.
C12_TimeoutOrCrashEndsOnlyThatExecution ==
    /\ \A t \in Spawned : TimedOut(t) =>
          events[config[t]] = << Start(config[t]) >> /\ exited[config[t]] = <<>>
    /\ \A c \in 1..MaxConfigs :
          (\E i \in DOMAIN events[c] : events[c][i].tag = "Timeout") =>
              events[c] = << Start(c), Timeout >> /\ exited[c] = <<>>
    /\ \A c \in 1..MaxConfigs :
          (Classified(c) /\ exited[c] = << 101 >>) =>
              \E d \in Diags : events[c] = << Start(c), Failure(d) >>
    /\ \A t \in Spawned :
          (pc[t] = "done" /\ ~Failed(t)) =>
              result[t] = Ok /\ configs_iter >= Len(configs)
    /\ (Returned /\ spawned >= 1 /\ firstErr = 0) => ret = Ok

\* one thread ran a timed-out execution, then a crashed one, and execute
\* returned Ok
C12_Witness ==
    /\ Returned /\ ret = Ok /\ num_threads = 1
    /\ events[1] = << Start(1), Timeout >>
    /\ exited[2] = << 101 >>
    /\ events[2] = << Start(2), Failure("d1") >>

\* thread t ended on a failed spawn()/wait() or a failed decode
FailedOnProcess(t) == Failed(t) /\ result[t][2] \in { "Io", "Decode" }

\* C13: a spawn failure or a decode failure of the worker's stdout stops
\* only the thread on which it occurs: its config is left with a Start and
\* no terminal event, the thread holds neither lock, every other thread
\* keeps draining the cursor, and execute returns an error, after all
\* threads have finished (the error of that thread when no other failed).
C13_ProcessErrorStopsOnlyItsThread ==
    /\ \A t \in Spawned : FailedOnProcess(t) =>
          /\ events[config[t]] = << Start(config[t]) >>
          /\ pc[t] = "done"
          /\ sinkOwner # t /\ iterOwner # t
    /\ \A t \in Spawned : result[t] = Ok => configs_iter >= Len(configs)
    /\ \A c \in 1..MaxConfigs :
          (Returned /\ exited[c] = << 0 >> /\ TerminalsOf(c) = {}) => IsErr(ret)
    /\ Returned =>
          /\ \A t \in Spawned : result[t] # <<>>
          /\ (\E t \in Spawned : Failed(t)) => IsErr(ret)
          /\ \A t \in Spawned :
                (FailedOnProcess(t) /\ \A u \in Spawned \ {t} : ~Failed(u)) => ret = result[t]

\* thread 1 failed to decode its worker's stdout, thread 2 went on to run
\* the other config to a Success, and execute returned thread 1's error
C13_Witness ==
    /\ Returned /\ ret = Err("Decode", 1)
    /\ spawned = 2 /\ result[2] = Ok
    /\ \E c \in 1..MaxConfigs :
          /\ config[1] = c /\ exited[c] = << 0 >> /\ events[c] = << Start(c) >>
          /\ \E d \in 1..MaxConfigs :
                d # c /\ Len(events[d]) = 2 /\ events[d][2].tag = "Success"

\* a spawn failure on one thread while the other finished without error
C13_WitnessSpawn ==
    /\ Returned /\ spawned = 2
    /\ \E t \in Spawned : result[t] = Err("Io", t) /\ ret = result[t]
    /\ \E u \in Spawned : result[u] = Ok /\ config[u] # 0

\* C14: when the requested config set is empty and the default enumeration
\* is also empty, execute returns the NoDefaultConfigs error without
\* invoking the event callback and without spawning any worker.
C14_NoDefaultConfigsBeforeAnything ==
    (mpc # "entry" /\ requested = <<>> /\ default_configs = << <<>> >>) =>
        /\ ret = Err("NoDefaultConfigs", 0)
        /\ \A c \in 0..MaxConfigs : events[c] = <<>>
        /\ spawned = 0
        /\ \A t \in Threads : pc[t] = "unspawned"
        /\ \A c \in 1..MaxConfigs : exited[c] = <<>>

C14_Witness ==
    /\ requested = <<>> /\ default_configs = << <<>> >>
    /\ ret = Err("NoDefaultConfigs", 0)

\* execute has returned and every worker thread it spawned has exited
ExecuteOver ==
    /\ mpc = "returned"
    /\ \A t \in Threads : pc[t] \in { "unspawned", "done" }

\* a worker thread is in a write to its worker's stdin that never returns
WriteBlocked == \E t \in Threads : pc[t] = "write_blocked"

\* C23: when a timeout is supplied, execute eventually returns with every
\* worker thread exited, whatever the workers do.
C23_TimeoutBoundsExecute == timeout => <>ExecuteOver

\* apart from the write to a worker that never reads, a call with a timeout
\* does come to its end: no thread waits forever on the cursor or the sink
C23_ReturnsUnlessAWriteBlocks == timeout => <>(ExecuteOver \/ WriteBlocked)

\* some execution has had its Start event emitted
SomeStart == \E c \in 1..MaxConfigs : events[c] # <<>>

\* the callback rejected the UsingDefaultConfigs event
DefaultsRejected == events[0] # <<>> /\ ret = Err("Callback", 0)

\* C24: with an empty requested set and a non-empty default list, the only
\* event handed to the callback outside the workers is one
\* UsingDefaultConfigs listing the defaults, it is there whenever a Start
\* event is, and the workers then draw from exactly the default list; with a
\* non-empty requested set there is never a UsingDefaultConfigs event and
\* the workers draw from the requested list; when the callback rejects the
\* UsingDefaultConfigs event execute has returned that error, no worker was
\* spawned and no execution started.
C24_DefaultsAnnouncedOnceBeforeAnyStart ==
    /\ (requested = <<>> /\ mpc # "entry" /\ default_configs # << <<>> >>) =>
           /\ Len(events[0]) = 1
           /\ events[0][1].tag = "UsingDefaultConfigs"
           /\ events[0][1].config = default_configs[1]
           /\ ~DefaultsRejected => configs = default_configs[1]
    /\ (requested = <<>> /\ SomeStart) => Len(events[0]) = 1
    /\ requested # <<>> =>
           /\ events[0] = <<>>
           /\ default_configs = <<>>
           /\ mpc # "entry" => configs = requested
    /\ DefaultsRejected =>
           /\ mpc = "returned"
           /\ spawned = 0
           /\ \A t \in Threads : pc[t] = "unspawned"
           /\ ~SomeStart
    /\ \A c \in 1..MaxConfigs : events[c] # <<>> => c \in DOMAIN configs

\* the defaults were announced, an execution of a default started and
\* execute returned Ok
C24_Witness ==
    /\ requested = <<>> /\ Len(events[0]) = 1
    /\ SomeStart
    /\ ret = Ok

\* the callback rejected the announcement
C24_WitnessRejected == requested = <<>> /\ DefaultsRejected

\* configs were requested and an execution started
C24_WitnessRequested == requested # <<>> /\ SomeStart /\ ret = Ok

\* thread t holds the on_event guard and is calling, or about to call, the
\* callback
InCallback(t) == pc[t] \in { "cb_start", "cb_timeout", "classify" }

\* C15: the event callback is never running in two worker threads at once:
\* every invocation is mutually exclusive with every other, in every
\* interleaving.
C15_CallbackIsMutuallyExclusive ==
    \A t, u \in Threads : (InCallback(t) /\ InCallback(u)) => t = u

\* one thread is inside the callback while another waits for the guard
C15_Witness ==
    \E t, u \in Threads :
        /\ t # u /\ InCallback(t) /\ sinkOwner = t
        /\ pc[u] \in { "lock_start", "lock_timeout", "lock_term" }

(* ------------- buffer-check: normalize_execution and compare ------------ *)

ResourceKinds == { "StorageBuffer", "UniformBuffer" }

\* PipelineDescription.resources, by kind, in declaration order
PipelineDescs ==
    { <<>>, << "StorageBuffer" >>, << "UniformBuffer" >>,
      << "UniformBuffer", "StorageBuffer" >>,
      << "StorageBuffer", "StorageBuffer" >> }

\* one (offset, size) pair of Type::ranges()
Spans == { << o, n >> : o \in 0..(MaxBufLen - 1), n \in 1..MaxBufLen }
\* what Type::ranges() yields for one type: no span, one span, or two
\* one-byte spans
SpanLists ==
    { <<>> } \cup { << sp >> : sp \in Spans }
    \cup UNION { { << << o1, 1 >>, << o2, 1 >> >> : o2 \in (o1 + 1)..(MaxBufLen - 1) } :
                  o1 \in 0..(MaxBufLen - 1) }
\* the types given to a resource that is not the first storage buffer
FewSpanLists == { <<>>, << << 0, 1 >> >>, << << 1, 1 >> >> }
\* type_descs, aligned by index with the resources
TypeDescs(pd) ==
    { tds \in [ DOMAIN pd -> SpanLists ] :
        \A j \in DOMAIN pd :
            (pd[j] # "StorageBuffer" \/ j > 1) => tds[j] \in FewSpanLists }

Bytes == { 0, 1 }
\* one Vec<u8>
Buffers == UNION { [ 1..n -> Bytes ] : n \in 0..MaxBufLen }
\* the Vec<Vec<u8>> a caller passes along with pipeline pd: as many
\* buffers as pd has resources, or fewer
RawBuffers(pd) == UNION { [ 1..n -> Buffers ] : n \in 0..Len(pd) }

RECURSIVE StorageResourcesUnfiltered(_, _)
StorageResourcesUnfiltered(pd, j) ==
    IF j > Len(pd) THEN <<>>
    ELSE << j >> \o StorageResourcesUnfiltered(pd, j + 1)

\* lines 11-16: the indices j of the StorageBuffer resources, in order;
\* the position i of j in this list indexes `buffers`
RECURSIVE StorageResources(_, _)
StorageResources(pd, j) ==
    IF j > Len(pd) THEN <<>>
    ELSE (IF pd[j] = "StorageBuffer" THEN << j >> ELSE <<>>)
         \o StorageResources(pd, j + 1)

\* an index or slice out of bounds panics
Panicked == [panic |-> TRUE, data |-> <<>>]
Returns(d) == [panic |-> FALSE, data |-> d]

SpanBytesToEnd(buffer, span) == SubSeq(buffer, span[1] + 1, Len(buffer))

\* line 22: &buffer[offset..(offset + size)]
SpanBytes(buffer, span) == SubSeq(buffer, span[1] + 1, span[1] + span[2])
\* the slice index of line 22 is in bounds
SpanInBounds(buffer, span) == span[1] + span[2] <= Len(buffer)

\* lines 20-23: the loop over type_descs[j].ranges(), from range k on
RECURSIVE ExtendRanges(_, _, _, _)
ExtendRanges(acc, buffer, ranges, k) ==
    IF k > Len(ranges) THEN Returns(acc)
    ELSE IF ~SpanInBounds(buffer, ranges[k]) THEN Panicked
    ELSE ExtendRanges(acc \o SpanBytes(buffer, ranges[k]), buffer, ranges, k + 1)

\* lines 11-24: the loop over the storage buffers, from the i-th on
RECURSIVE NormalizeFrom(_, _, _, _, _)
NormalizeFrom(acc, bufs, storage, tds, i) ==
    IF i > Len(storage) THEN Returns(acc)
    ELSE IF i > Len(bufs) \/ storage[i] > Len(tds) THEN Panicked
    ELSE LET r == ExtendRanges(acc, bufs[i], tds[storage[i]], 1)
         IN  IF r.panic THEN Panicked
             ELSE NormalizeFrom(r.data, bufs, storage, tds, i + 1)

\* lines 4-27
normalize_execution(bufs, pd, tds) ==
    NormalizeFrom(<<>>, bufs, StorageResources(pd, 1), tds, 1)

\* canonical forms of the entries handed to group
Canonicals == { <<>>, << 0 >>, << 1 >> }
GroupInputs == UNION { [ 1..n -> Canonicals ] : n \in 0..MaxEntries }

\* ConsensusEntry { output, configs }
ConsensusEntry(bytes, ids) == [output |-> bytes, configs |-> ids]

GroupAddToLast(gs, id, canonical) ==
    IF gs # <<>> /\ gs[Len(gs)].output = canonical
    THEN [gs EXCEPT ![Len(gs)].configs = Append(@, id)]
    ELSE Append(gs, ConsensusEntry(canonical, << id >>))

\* one entry joins the group of its canonical form, or opens a new group
\* after the existing ones
GroupAdd(gs, id, canonical) ==
    IF \E k \in DOMAIN gs : gs[k].output = canonical
    THEN LET k == CHOOSE k \in DOMAIN gs : gs[k].output = canonical
         IN  [gs EXCEPT ![k].configs = Append(@, id)]
    ELSE Append(gs, ConsensusEntry(canonical, << id >>))

\* group over the first n entries, taken in input order
RECURSIVE GroupUpTo(_, _)
GroupUpTo(es, n) ==
    IF n = 0 THEN <<>> ELSE GroupAdd(GroupUpTo(es, n - 1), n, es[n])

\* ConsensusComparator.group
group(es) == GroupUpTo(es, Len(es))

InitBuf ==
    /\ mode \in { "normalize", "compare", "group" }
    /\ IF mode = "group"
       THEN /\ pipeline_desc = <<>>
            /\ type_descs = <<>>
            /\ gentries \in GroupInputs
       ELSE /\ pipeline_desc \in PipelineDescs
            /\ type_descs \in TypeDescs(pipeline_desc)
            /\ gentries = <<>>
    /\ buffers = <<>>
    /\ canonical_data = <<>>
    /\ other = <<>>
    /\ prev_normalized = <<>>
    /\ forms = <<>>
    /\ groups = <<>>
    /\ bpc = "entry"
    /\ bret = <<>>

\* a call group(gentries)
Group ==
    /\ mode = "group" /\ bpc = "entry"
    /\ groups' = group(gentries)
    /\ bpc' = "grouped"
    /\ UNCHANGED << nonBufVars, mode, pipeline_desc, type_descs, buffers,
                    canonical_data, other, prev_normalized, forms, gentries, bret >>

\* a call normalize_execution(b, pipeline_desc, type_descs)
Normalize ==
    /\ mode = "normalize" /\ bpc = "entry"
    /\ \E b \in RawBuffers(pipeline_desc) :
         /\ buffers' = << b >>
         /\ canonical_data' = << normalize_execution(b, pipeline_desc, type_descs) >>
    /\ bpc' = "normalized"
    /\ UNCHANGED << nonBufVars, gentries, groups, mode, pipeline_desc, type_descs, other,
                    prev_normalized, forms, bret >>

\* RawBuffers a and b hold the same byte at every position inside a span
\* of a storage-buffer resource
SameOnSpans(a, b, pd, tds) ==
    LET storage == StorageResources(pd, 1)
    IN  \A i \in DOMAIN storage :
          /\ i <= Len(a) /\ i <= Len(b)
          /\ \A k \in DOMAIN tds[storage[i]] :
                LET sp == tds[storage[i]][k]
                IN  \A x \in (sp[1] + 1)..(sp[1] + sp[2]) :
                      /\ x <= Len(a[i]) /\ x <= Len(b[i])
                      /\ a[i][x] = b[i][x]

\* a second call, on another RawBuffers of the same pipeline; of that one
\* only the result and its relation to `buffers` are kept
NormalizeOther ==
    /\ mode = "normalize" /\ bpc = "normalized"
    /\ \E b \in RawBuffers(pipeline_desc) :
         other' = << [same_on_spans |-> SameOnSpans(buffers[1], b, pipeline_desc, type_descs),
                      identical |-> (b = buffers[1]),
                      canonical_data |-> normalize_execution(b, pipeline_desc, type_descs)] >>
    /\ bpc' = "both"
    /\ UNCHANGED << nonBufVars, gentries, groups, mode, pipeline_desc, type_descs, buffers,
                    canonical_data, prev_normalized, forms, bret >>

DiffersNever(current_normalized, prev) == FALSE

\* line 41: current_normalized != prev_normalized
Differs(current_normalized, prev) == current_normalized # prev

\* what buffers.next() yields: None, or another execution while the
\* iterator has some left
NextExecution(pd, taken) ==
    { <<>> } \cup (IF taken < MaxExecutions
                  THEN { << b >> : b \in RawBuffers(pd) } ELSE {})

\* lines 33-36: the first entry, or an empty iterator
CompareFirst ==
    /\ mode = "compare" /\ bpc = "entry"
    /\ \E nxt \in NextExecution(pipeline_desc, 0) :
         IF nxt = <<>>
         THEN /\ bret' = << "true" >>
              /\ bpc' = "returned"
              /\ UNCHANGED << prev_normalized, forms >>
         ELSE LET r == normalize_execution(nxt[1], pipeline_desc, type_descs)
              IN  /\ forms' = << r >>
                  /\ IF r.panic
                     THEN /\ bret' = << "panic" >>
                          /\ bpc' = "returned"
                          /\ UNCHANGED prev_normalized
                     ELSE /\ prev_normalized' = << r.data >>
                          /\ bpc' = "loop"
                          /\ UNCHANGED bret
    /\ UNCHANGED << nonBufVars, gentries, groups, mode, pipeline_desc, type_descs, buffers,
                    canonical_data, other >>

\* lines 38-48: one turn of the loop, or its end
CompareNext ==
    /\ mode = "compare" /\ bpc = "loop"
    /\ \E nxt \in NextExecution(pipeline_desc, Len(forms)) :
         IF nxt = <<>>
         THEN /\ bret' = << "true" >>
              /\ bpc' = "returned"
              /\ UNCHANGED << prev_normalized, forms >>
         ELSE LET r == normalize_execution(nxt[1], pipeline_desc, type_descs)
              IN  /\ forms' = Append(forms, r)
                  /\ IF r.panic
                     THEN /\ bret' = << "panic" >>
                          /\ bpc' = "returned"
                          /\ UNCHANGED prev_normalized
                     ELSE IF Differs(r.data, prev_normalized[1])
                     THEN /\ bret' = << "false" >>
                          /\ bpc' = "returned"
                          /\ UNCHANGED prev_normalized
                     ELSE /\ prev_normalized' = << r.data >>
                          /\ UNCHANGED << bpc, bret >>
    /\ UNCHANGED << nonBufVars, gentries, groups, mode, pipeline_desc, type_descs, buffers,
                    canonical_data, other >>

NextBuf ==
    \/ Normalize
    \/ NormalizeOther
    \/ CompareFirst
    \/ CompareNext
    \/ Group

\* a call of normalize_execution or of compare, from its entry
InitBufRun == InitBuf /\ IdleExec /\ IdleOracle /\ IdleTarget /\ IdleCall

SpecBuf == InitBufRun /\ [][NextBuf]_vars

(* ------------------ buffer-check: what the claims say ------------------ *)

\* C16: normalization is padding-insensitive: two RawBuffers that agree on
\* every byte inside the declared significant spans of every storage-buffer
\* resource normalize to the same byte sequence, whatever the bytes outside
\* those spans are.
C16_NormalizationIsPaddingInsensitive ==
    (bpc = "both" /\ other[1].same_on_spans) =>
        /\ ~canonical_data[1].panic
        /\ other[1].canonical_data = canonical_data[1]

\* two different RawBuffers, equal on the spans, with a non-empty
\* canonical form
C16_Witness ==
    /\ bpc = "both"
    /\ other[1].same_on_spans /\ ~other[1].identical
    /\ canonical_data[1].data # <<>>

\* RawBuffers b does not fit the descriptors: not one buffer per
\* storage-buffer resource, or a span that ends outside its buffer
Inconsistent(b, pd, tds) ==
    LET storage == StorageResources(pd, 1)
    IN  \/ Len(b) # Len(storage)
        \/ \E i \in DOMAIN storage :
              /\ i <= Len(b)
              /\ \E k \in DOMAIN tds[storage[i]] :
                    tds[storage[i]][k][1] + tds[storage[i]][k][2] > Len(b[i])

\* C17: normalize_execution never returns a result for inconsistent
\* inputs: a span that reaches outside its buffer, or a number of
\* RawBuffers different from the number of storage-buffer resources (fewer
\* or more), is a fatal contract error rather than a normalized output.
C17_InconsistentInputsAreFatal ==
    (bpc \in { "normalized", "both" }
       /\ Inconsistent(buffers[1], pipeline_desc, type_descs)) =>
        canonical_data[1].panic

\* C18: compare returns true exactly when every pair of entries, not only
\* adjacent ones, has identical normalized forms; it returns true for zero
\* entries and for one entry, and false as soon as an entry differs from
\* another.
C18_CompareIsPairwiseAgreement ==
    /\ bret = << "true" >> =>
          \A i, j \in DOMAIN forms :
              ~forms[i].panic /\ forms[i].data = forms[j].data
    /\ bret = << "false" >> =>
          /\ \E i, j \in DOMAIN forms : forms[i].data # forms[j].data
          /\ \A i, j \in 1..(Len(forms) - 1) : forms[i].data = forms[j].data
    /\ (bpc = "returned" /\ Len(forms) <= 1 /\ \A i \in DOMAIN forms : ~forms[i].panic) =>
          bret = << "true" >>

\* three entries with the same non-empty canonical form
C18_Witness ==
    /\ bret = << "true" >>
    /\ Len(forms) = MaxExecutions
    /\ forms[1].data # <<>>

\* the third entry is the first to differ
C18_WitnessFalse ==
    /\ bret = << "false" >>
    /\ Len(forms) = 3

\* the groups (by index) that list entry i
GroupsOf(i) == { k \in DOMAIN groups : \E q \in DOMAIN groups[k].configs : groups[k].configs[q] = i }

\* C19: group partitions the entries into ConsensusEntry groups keyed by
\* canonical byte sequence: every entry's identifier appears in exactly one
\* group, two entries share a group iff their canonical bytes are equal,
\* groups are ordered by first appearance of their canonical value,
\* identifiers inside a group keep input order, and more than one group
\* means the inputs disagree.
C19_GroupPartitionsByCanonicalBytes ==
    bpc = "grouped" =>
        /\ \A i \in DOMAIN gentries :
              /\ Cardinality(GroupsOf(i)) = 1
              /\ \A k \in GroupsOf(i) :
                    /\ groups[k].output = gentries[i]
                    /\ Cardinality({ q \in DOMAIN groups[k].configs :
                                       groups[k].configs[q] = i }) = 1
        /\ \A k \in DOMAIN groups :
              /\ groups[k].configs # <<>>
              /\ \A q \in DOMAIN groups[k].configs :
                    groups[k].configs[q] \in DOMAIN gentries
              /\ \A q, r \in DOMAIN groups[k].configs :
                    q < r => groups[k].configs[q] < groups[k].configs[r]
        /\ \A i, j \in DOMAIN gentries :
              (GroupsOf(i) = GroupsOf(j)) <=> (gentries[i] = gentries[j])
        /\ \A k, l \in DOMAIN groups :
              k < l => groups[k].configs[1] < groups[l].configs[1]
        /\ (Len(groups) > 1) <=> (\E i, j \in DOMAIN gentries : gentries[i] # gentries[j])

\* entries A, B, A: two groups, the first holding entries 1 and 3
C19_Witness ==
    /\ bpc = "grouped"
    /\ Len(gentries) = 3 /\ gentries[1] = gentries[3] /\ gentries[1] # gentries[2]
    /\ Len(groups) = 2
    /\ groups[1].configs = << 1, 3 >>
    /\ groups[2].configs = << 2 >>

(* --------------- harness_runner.rs: TargetPath text form ---------------- *)

\* characters of a target text: two ConfigId letters, the separators and
\* a blank
Chars == { "w", "d", ",", "@", " " }
Texts == UNION { [ 1..n -> Chars ] : n \in 0..MaxTextLen }

\* ConfigId and its canonical string: the parser is the inverse of the
\* formatter
ConfigIds == { [backend |-> "wgpu"], [backend |-> "dawn"] }
ConfigIdToString(c) == IF c.backend = "wgpu" THEN << "w" >> ELSE << "d" >>
\* str::parse::<ConfigId>
ParseConfigId(str) ==
    IF \E c \in ConfigIds : ConfigIdToString(c) = str
    THEN << CHOOSE c \in ConfigIds : ConfigIdToString(c) = str >>
    ELSE <<>>

LastIndexOf(str, ch) ==
    IF \E i \in DOMAIN str : str[i] = ch
    THEN CHOOSE i \in DOMAIN str : str[i] = ch /\ \A j \in DOMAIN str : str[j] = ch => j <= i
    ELSE 0

\* position of the first ch in str, 0 when there is none
FirstIndexOf(str, ch) ==
    IF \E i \in DOMAIN str : str[i] = ch
    THEN CHOOSE i \in DOMAIN str : str[i] = ch /\ \A j \in DOMAIN str : str[j] = ch => i <= j
    ELSE 0

\* str::split(ch): the pieces between the separators, empty ones included
RECURSIVE split(_, _)
split(str, ch) ==
    LET i == FirstIndexOf(str, ch)
    IN  IF i = 0 THEN << str >>
        ELSE << SubSeq(str, 1, i - 1) >> \o split(SubSeq(str, i + 1, Len(str)), ch)

\* str::trim: leading and trailing white space removed
RECURSIVE trim(_)
trim(str) ==
    IF str = <<>> THEN str
    ELSE IF str[1] = " " THEN trim(SubSeq(str, 2, Len(str)))
    ELSE IF str[Len(str)] = " " THEN trim(SubSeq(str, 1, Len(str) - 1))
    ELSE str

\* [String]::join(sep)
RECURSIVE join(_, _)
join(strs, sep) ==
    IF strs = <<>> THEN <<>>
    ELSE IF Len(strs) = 1 THEN strs[1]
    ELSE strs[1] \o << sep >> \o join(SubSeq(strs, 2, Len(strs)), sep)

ParseErr == [ok |-> FALSE, harness_name |-> <<>>, configs |-> <<>>]

\* lines 56-75: TargetPath::from_str
from_str(text) ==
    LET at == FirstIndexOf(text, "@")
    IN  IF at = 0 THEN ParseErr
        ELSE LET config_str == SubSeq(text, 1, at - 1)
                 harness_name == SubSeq(text, at + 1, Len(text))
                 pieces == IF config_str = <<>> THEN <<>> ELSE split(config_str, ",")
                 ids == [ i \in DOMAIN pieces |-> ParseConfigId(trim(pieces[i])) ]
             IN  IF \E i \in DOMAIN ids : ids[i] = <<>> THEN ParseErr
                 ELSE [ok |-> TRUE, harness_name |-> harness_name,
                       configs |-> [ i \in DOMAIN ids |-> ids[i][1] ]]

\* lines 79-88: Display for TargetPath
fmt(tp) ==
    join([ i \in DOMAIN tp.configs |-> ConfigIdToString(tp.configs[i]) ], ",")
    \o << "@" >> \o tp.harness_name

InitTarget ==
    /\ arg \in Texts
    /\ parsed = <<>>
    /\ formatted = <<>>
    /\ tpc = "entry"

\* arg.parse::<TargetPath>()
ParseTarget ==
    /\ tpc = "entry"
    /\ parsed' = << from_str(arg) >>
    /\ tpc' = "parsed"
    /\ UNCHANGED << nonTargetVars, arg, formatted >>

\* target_path.to_string(), of a TargetPath that was parsed
FormatTarget ==
    /\ tpc = "parsed"
    /\ parsed[1].ok
    /\ formatted' = << fmt(parsed[1]) >>
    /\ tpc' = "formatted"
    /\ UNCHANGED << nonTargetVars, arg, parsed >>

NextTarget ==
    \/ ParseTarget
    \/ FormatTarget

InitTargetRun == InitTarget /\ IdleExec /\ IdleOracle /\ IdleBuf /\ IdleCall

SpecTarget == InitTargetRun /\ [][NextTarget]_vars

\* text is cfg1,...,cfgN@harness for canonical ConfigId strings cfg1..cfgN
\* (N >= 0), with nothing around them
Normalized(text) ==
    \E n \in 0..Len(text) : \E ids \in [ 1..n -> ConfigIds ] :
        LET head == join([ i \in 1..n |-> ConfigIdToString(ids[i]) ], ",") \o << "@" >>
        IN  Len(head) <= Len(text) /\ SubSeq(text, 1, Len(head)) = head

\* C20: for every normalized target text cfg1,...,cfgN@harness (N >= 0,
\* valid ConfigId strings, no surrounding white space), parsing it as a
\* TargetPath and formatting the result returns the same text; parsing any
\* text that contains no '@' fails with a parse error.
C20_TargetPathRoundTrip ==
    /\ (tpc # "entry" /\ Normalized(arg)) => parsed[1].ok
    /\ (tpc = "parsed" /\ Normalized(arg)) => fmt(parsed[1]) = arg
    /\ (tpc = "formatted" /\ Normalized(arg)) => formatted[1] = arg
    /\ (tpc # "entry" /\ \A i \in DOMAIN arg : arg[i] # "@") => ~parsed[1].ok

\* a text with two different ConfigIds and a harness name went through
\* from_str and fmt
C20_Witness ==
    /\ tpc = "formatted" /\ Normalized(arg)
    /\ Len(parsed[1].configs) = 2
    /\ parsed[1].configs[1] # parsed[1].configs[2]
    /\ parsed[1].harness_name # <<>>

\* a text without '@' was rejected
C20_WitnessNoAt ==
    /\ tpc = "parsed" /\ arg # <<>> /\ ~parsed[1].ok
    /\ \A i \in DOMAIN arg : arg[i] # "@"

(* ------------------ normalize_execution: its output -------------------- *)

\* the resource index of the k-th storage-buffer resource of pd
KthStorage(pd, k) ==
    CHOOSE j \in DOMAIN pd :
        /\ pd[j] = "StorageBuffer"
        /\ Cardinality({ h \in 1..(j - 1) : pd[h] = "StorageBuffer" }) = k - 1
StorageCount(pd) == Cardinality({ j \in DOMAIN pd : pd[j] = "StorageBuffer" })

\* total size of the first n spans of a span list
RECURSIVE SpanSizes(_, _)
SpanSizes(ranges, n) == IF n = 0 THEN 0 ELSE SpanSizes(ranges, n - 1) + ranges[n][2]
\* total size of the spans of the first n storage-buffer resources
RECURSIVE StorageSizes(_, _, _)
StorageSizes(pd, tds, n) ==
    IF n = 0 THEN 0
    ELSE StorageSizes(pd, tds, n - 1)
         + SpanSizes(tds[KthStorage(pd, n)], Len(tds[KthStorage(pd, n)]))

\* C21: normalize_execution returns the concatenation, over the
\* storage-buffer resources in declaration order, of the bytes of each
\* resource's spans in the order given: the k-th storage-buffer resource
\* reads RawBuffers[k] and the TypeDescriptor at its index among all
\* resources, and the output length is the sum of all span lengths.
C21_NormalizeIsConcatenationOfSpans ==
    (bpc \in { "normalized", "both" } /\ ~canonical_data[1].panic) =>
        LET data == canonical_data[1].data
            bufs == buffers[1]
        IN  /\ Len(data) = StorageSizes(pipeline_desc, type_descs, StorageCount(pipeline_desc))
            /\ \A k \in 1..StorageCount(pipeline_desc) :
                  LET ranges == type_descs[KthStorage(pipeline_desc, k)]
                  IN  \A r \in DOMAIN ranges : \A x \in 1..ranges[r][2] :
                        data[StorageSizes(pipeline_desc, type_descs, k - 1)
                             + SpanSizes(ranges, r - 1) + x]
                          = bufs[k][ranges[r][1] + x]

\* a uniform resource comes first, so the one storage buffer reads
\* RawBuffers[1] with the second TypeDescriptor, which has two spans
C21_Witness ==
    /\ bpc = "normalized" /\ ~canonical_data[1].panic
    /\ pipeline_desc = << "UniformBuffer", "StorageBuffer" >>
    /\ type_descs[1] # type_descs[2]
    /\ Len(canonical_data[1].data) = 1
    /\ Len(buffers[1][1]) = MaxBufLen

\* two storage buffers, the first with two spans
C21_WitnessTwoBuffers ==
    /\ bpc = "normalized" /\ ~canonical_data[1].panic
    /\ pipeline_desc = << "StorageBuffer", "StorageBuffer" >>
    /\ Len(type_descs[1]) = 2 /\ Len(type_descs[2]) = 1
    /\ Len(canonical_data[1].data) = 3

(* ----------------- calls of functions that keep no state ---------------- *)

\* Harness::Local(path) / Harness::Remote(address)
HarnessLocal(path) == [kind |-> "Local", at |-> path]
HarnessRemote(address) == [kind |-> "Remote", at |-> address]
\* Target { harness, configs }
Target(harness, cfgs) == [harness |-> harness, configs |-> cfgs]

\* what get_targets is called with: the Config (harness.path and
\* default_remote()), whether std::env::current_exe() succeeds, and the
\* three command-line arguments
ConfigLists2 == { <<>>, << [backend |-> "wgpu"] >>,
                  << [backend |-> "dawn"], [backend |-> "wgpu"] >> }
TargetPaths ==
    [harness_name : { "local", "host1" },
     configs : { <<>>, << [backend |-> "dawn"] >> }]
GetTargetsInputs ==
    [harness_path : { <<>>, << "/opt/harness" >> },
     default_remote : { <<>>, << "host0" >> },
     current_exe : { <<>>, << "/bin/wgslsmith" >> },
     server : { <<>>, << "host2" >> },
     configs : ConfigLists2,
     targets : SeqUpTo(TargetPaths, MaxTargetPaths)]

\* lines 138-144 and 100-106: config.harness.path, or else current_exe()?
LocalHarness(in) ==
    IF in.harness_path # <<>> THEN << HarnessLocal(in.harness_path[1]) >>
    ELSE IF in.current_exe # <<>> THEN << HarnessLocal(in.current_exe[1]) >>
    ELSE <<>>

\* lines 98-115: Target::from_path; << >> is Err
from_path(target_path, in) ==
    IF target_path.harness_name = "local"
    THEN IF LocalHarness(in) = <<>> THEN <<>>
         ELSE << Target(LocalHarness(in)[1], target_path.configs) >>
    ELSE << Target(HarnessRemote(target_path.harness_name), target_path.configs) >>

NeedsExtraTargetWhenNoneGiven(server, cfgs, targets) == targets = <<>>

\* line 133
NeedsExtraTarget(server, cfgs, targets) ==
    server # <<>> \/ cfgs # <<>> \/ targets = <<>>

\* lines 134-145: server.as_deref().or_else(|| config.default_remote())
ExtraHarness(in) ==
    IF in.server # <<>> THEN << HarnessRemote(in.server[1]) >>
    ELSE IF in.default_remote # <<>> THEN << HarnessRemote(in.default_remote[1]) >>
    ELSE LocalHarness(in)

GetTargetsErr == [ok |-> FALSE, targets |-> <<>>]

\* lines 122-149
get_targets(in) ==
    LET converted == [ i \in DOMAIN in.targets |-> from_path(in.targets[i], in) ]
    IN  IF \E i \in DOMAIN converted : converted[i] = <<>> THEN GetTargetsErr
        ELSE LET targets == [ i \in DOMAIN converted |-> converted[i][1] ]
             IN  IF NeedsExtraTarget(in.server, in.configs, targets)
                 THEN IF ExtraHarness(in) = <<>> THEN GetTargetsErr
                      ELSE [ok |-> TRUE,
                            targets |-> Append(targets, Target(ExtraHarness(in)[1], in.configs))]
                 ELSE [ok |-> TRUE, targets |-> targets]

(* ---------------- reconditioner: generated safe wrappers ---------------- *)

\* A u32 is kept at its full width as two 16-bit limbs << high, low >>.
Limb == 2^16

\* u32 `+` of the generated WGSL: the carry out of the high limb is dropped
U32Add(a, b) ==
    LET low == a[2] + b[2]
        high == a[1] + b[1] + (low \div Limb)
    IN  << high % Limb, low % Limb >>

\* u32 `-` of the generated WGSL: the borrow out of the high limb is dropped
U32Sub(a, b) ==
    LET low == a[2] - b[2]
        borrow == IF low < 0 THEN 1 ELSE 0
        high == a[1] - b[1] - borrow
    IN  << (high + Limb) % Limb, (low + Limb) % Limb >>

U32LessOrSame(a, b) == a[1] < b[1] \/ (a[1] = b[1] /\ a[2] <= b[2])

\* u32 `<` of the generated WGSL
U32Less(a, b) == a[1] < b[1] \/ (a[1] = b[1] /\ a[2] < b[2])

\* the builtin min on u32
U32Min(a, b) == IF U32Less(a, b) THEN a ELSE b

\* the builtin select(f, t, cond)
select(f, t, cond) == IF cond THEN t ELSE f

\* the values offset and count are drawn from: both ends of the range and
\* the neighbours of the type width
U32Samples ==
    { << 0, 0 >>, << 0, 1 >>, << 0, 31 >>, << 0, 32 >>, << 0, 33 >>,
      << 0, Limb - 1 >>, << 1, 0 >>, << Limb \div 2, 0 >>,
      << Limb - 1, Limb - 33 >>, << Limb - 1, Limb - 32 >>,
      << Limb - 1, Limb - 1 >> }

\* insert_bits.rs line 19
lit_32 == << 0, 32 >>

\* a call of the builtin insertBits, left unevaluated
InsertBitsCall(e, newbits, offset, count) ==
    [fn |-> "insertBits", e |-> e, newbits |-> newbits,
     offset |-> offset, count |-> count]

\* insert_bits.rs lines 24-25
safe_offset(offset) == U32Min(offset, lit_32)

\* line 27
remaining_space(offset) == U32Sub(lit_32, safe_offset(offset))

\* lines 29-30
safe_count(offset, count) == U32Min(count, remaining_space(offset))

\* lines 33-35 and extract_bits.rs lines 30-31, 64-66: the sum is less than
\* an operand
is_overflow(offset, count) == U32Less(U32Add(offset, count), offset)

\* insert_bits.rs lines 37-74: the body of the generated function
insert_bits(e, newbits, offset, count) ==
    LET safe_call == InsertBitsCall(e, newbits, safe_offset(offset),
                                    safe_count(offset, count))
        raw_call == InsertBitsCall(e, newbits, offset, count)
    IN  select(raw_call, safe_call, is_overflow(offset, count))

\* the data a wrapper is generated for: DataType::Scalar has one component,
\* DataType::Vector two or more
Scalar(v) == [data_type |-> "Scalar", components |-> << v >>]
Vector(vs) == [data_type |-> "Vector", components |-> vs]
I32Samples == { -2147483647, -1, 0, 1, 2147483647 }
SignedValues ==
    { Scalar(v) : v \in I32Samples }
    \cup { Vector(vs) : vs \in UNION { [1..n -> { -1, 0, 1 }] : n \in 2..MaxVecLen } }
UnsignedValues ==
    { Scalar(v) : v \in { 0, 1, 2147483647 } }
    \cup { Vector(vs) : vs \in UNION { [1..n -> { 0, 1 }] : n \in 2..MaxVecLen } }

\* TypeConsExpr::new(data_type, [lit]): the literal, splatted for a vector
TypeCons(e, lit) ==
    [data_type |-> e.data_type,
     components |-> [ i \in DOMAIN e.components |-> lit ]]

\* the builtin any
any(v) == \E i \in DOMAIN v : v[i]

\* a call of the builtin extractBits, left unevaluated
ExtractBitsCall(e, offset, count) ==
    [fn |-> "extractBits", e |-> e, offset |-> offset, count |-> count]

\* extract_bits.rs lines 16-26
negative_check(e) ==
    LET e_is_negative ==
            [ i \in DOMAIN e.components |->
                e.components[i] < TypeCons(e, 0).components[i] ]
    IN  IF e.data_type = "Vector" THEN any(e_is_negative) ELSE e_is_negative[1]

\* lines 38-41
type_width == << 0, 32 >>

OffsetAboveWidth(offset) == U32Less(type_width, offset)

\* line 53: offset >= type_width
OffsetAtLeastWidth(offset) == ~U32Less(offset, type_width)

\* lines 15-58: the condition the signed wrapper is built with
extract_bits_condition(e, offset, count) ==
    \/ count = << 0, 0 >>
    \/ is_overflow(offset, count)
    \/ (negative_check(e) /\ OffsetAtLeastWidth(offset))

\* lines 62-67: the condition the unsigned wrapper is built with
extract_bits_unsigned_condition(e, offset, count) == is_overflow(offset, count)

\* lines 71-117: the body of the generated function
gen_extract_bits_common(e, offset, count, should_return_zero) ==
    select(ExtractBitsCall(e, offset, count), TypeCons(e, 0), should_return_zero)

\* lines 14-59
extract_bits(e, offset, count) ==
    gen_extract_bits_common(e, offset, count,
                            extract_bits_condition(e, offset, count))

\* lines 61-68
extract_bits_unsigned(e, offset, count) ==
    gen_extract_bits_common(e, offset, count,
                            extract_bits_unsigned_condition(e, offset, count))

\* what one call can be given
CallInputs(f) ==
    IF f = "exec_shader_impl" THEN HarnessProcs(MaxProcLines)
    ELSE IF f = "get_targets" THEN GetTargetsInputs
    ELSE IF f = "insert_bits"
    THEN [e : { Scalar(0), Scalar(1) }, newbits : { Scalar(0), Scalar(1) },
          offset : U32Samples, count : U32Samples]
    ELSE IF f = "extract_bits"
    THEN [e : SignedValues, offset : U32Samples, count : U32Samples]
    ELSE IF f = "extract_bits_unsigned"
    THEN [e : UnsignedValues, offset : U32Samples, count : U32Samples]
    ELSE {}

Callees == { "exec_shader_impl", "get_targets", "insert_bits",
             "extract_bits", "extract_bits_unsigned" }

InitCall ==
    /\ callee \in Callees
    /\ call_in \in CallInputs(callee)
    /\ call_out = <<>>
    /\ call_pc = "entry"

\* harness_runner.rs lines 160-227: the harness process has been spawned
\* and fed; its lines are read and its exit status classified
ExecShader ==
    /\ callee = "exec_shader_impl" /\ call_pc = "entry"
    /\ call_out' = << exec_shader_impl(call_in) >>
    /\ call_pc' = "returned"
    /\ UNCHANGED << nonCallVars, callee, call_in >>

\* harness_runner.rs lines 122-149
GetTargets ==
    /\ callee = "get_targets" /\ call_pc = "entry"
    /\ call_out' = << get_targets(call_in) >>
    /\ call_pc' = "returned"
    /\ UNCHANGED << nonCallVars, callee, call_in >>

\* a call of the function insert_bits generates
InsertBits ==
    /\ callee = "insert_bits" /\ call_pc = "entry"
    /\ call_out' = << insert_bits(call_in.e, call_in.newbits,
                                  call_in.offset, call_in.count) >>
    /\ call_pc' = "returned"
    /\ UNCHANGED << nonCallVars, callee, call_in >>

\* a call of the function extract_bits generates
ExtractBits ==
    /\ callee = "extract_bits" /\ call_pc = "entry"
    /\ call_out' = << extract_bits(call_in.e, call_in.offset, call_in.count) >>
    /\ call_pc' = "returned"
    /\ UNCHANGED << nonCallVars, callee, call_in >>

\* a call of the function extract_bits_unsigned generates
ExtractBitsUnsigned ==
    /\ callee = "extract_bits_unsigned" /\ call_pc = "entry"
    /\ call_out' = << extract_bits_unsigned(call_in.e, call_in.offset,
                                            call_in.count) >>
    /\ call_pc' = "returned"
    /\ UNCHANGED << nonCallVars, callee, call_in >>

NextCall ==
    \/ ExecShader
    \/ GetTargets
    \/ InsertBits
    \/ ExtractBits
    \/ ExtractBitsUnsigned

InitCallRun == InitCall /\ IdleExec /\ IdleOracle /\ IdleBuf /\ IdleTarget

SpecCall == InitCallRun /\ [][NextCall]_vars

\* the list of the last well-formed consensus line, << >> when there is none
LastConsensusList(lines) ==
    IF \E i \in DOMAIN lines : lines[i].kind = "consensus"
    THEN lines[CHOOSE i \in DOMAIN lines :
                   /\ lines[i].kind = "consensus"
                   /\ \A j \in DOMAIN lines : lines[j].kind = "consensus" => j <= i].list
    ELSE <<>>
\* the positions of the lines that are not well-formed consensus lines
CapturedAt(lines) == { i \in DOMAIN lines : lines[i].kind # "consensus" }

\* C22: exec_shader classifies a composite target process by exit code
\* alone: 0 gives Success carrying the output of the first entry of the
\* consensus list reported (empty when none was), 1 gives Mismatch carrying
\* the last well-formed consensus list reported, 101 gives Crash carrying
\* all captured non-consensus output lines, in order, and any other code
\* or a missing code gives an error instead of a result.
C22_ExecShaderClassifiesByExitCode ==
    (callee = "exec_shader_impl" /\ call_pc = "returned") =>
        LET lines == call_in.lines
            code == call_in.code
            res == call_out[1]
            last == LastConsensusList(lines)
        IN  /\ code = << 0 >> =>
                  /\ res.tag = "Success"
                  /\ res.payload = IF last = <<>> THEN <<>> ELSE last[1].output
            /\ code = << 1 >> => res.tag = "Mismatch" /\ res.list = last
            /\ code = << 101 >> =>
                  /\ res.tag = "Crash"
                  /\ Len(res.output) = Cardinality(CapturedAt(lines))
                  /\ \A i \in CapturedAt(lines) :
                        res.output[Cardinality({ j \in CapturedAt(lines) : j <= i })]
                          = IF lines[i].kind = "text" THEN lines[i].text ELSE ParseErrorLine
            /\ code \notin { << 0 >>, << 1 >>, << 101 >> } => res.tag = "Error"

\* the process reported two consensus lists and exited with code 1
C22_Witness ==
    /\ callee = "exec_shader_impl" /\ call_pc = "returned"
    /\ call_in.code = << 1 >>
    /\ Len(call_in.lines) = 2
    /\ call_in.lines[1].kind = "consensus" /\ call_in.lines[2].kind = "consensus"
    /\ call_in.lines[1].list # call_in.lines[2].list
    /\ call_out[1].list # <<>>

\* a crash after a consensus line and a line of text
C22_WitnessCrash ==
    /\ callee = "exec_shader_impl" /\ call_pc = "returned"
    /\ call_in.code = << 101 >>
    /\ Len(call_in.lines) = 2
    /\ call_in.lines[1].kind = "consensus" /\ call_in.lines[2].kind = "text"
    /\ Len(call_out[1].output) = 1

\* get_targets returned Ok
GotTargets == callee = "get_targets" /\ call_pc = "returned" /\ call_out[1].ok

\* C25: get_targets never returns an empty list on success: it keeps the
\* explicitly given targets in order and appends one extra target (remote
\* if a server or default remote is configured, otherwise local) carrying
\* the given configs exactly when a server is given, the config list is
\* non-empty, or no explicit target was given.
C25_GetTargetsNeverEmpty ==
    GotTargets =>
        LET in == call_in
            out == call_out[1].targets
            extra == in.server # <<>> \/ in.configs # <<>> \/ in.targets = <<>>
        IN  /\ out # <<>>
            /\ Len(out) = Len(in.targets) + (IF extra THEN 1 ELSE 0)
            /\ \A i \in DOMAIN in.targets :
                  /\ out[i].configs = in.targets[i].configs
                  /\ IF in.targets[i].harness_name = "local"
                     THEN out[i].harness.kind = "Local"
                     ELSE out[i].harness = HarnessRemote(in.targets[i].harness_name)
            /\ extra =>
                  /\ out[Len(out)].configs = in.configs
                  /\ IF in.server # <<>>
                     THEN out[Len(out)].harness = HarnessRemote(in.server[1])
                     ELSE IF in.default_remote # <<>>
                     THEN out[Len(out)].harness = HarnessRemote(in.default_remote[1])
                     ELSE out[Len(out)].harness.kind = "Local"

\* explicit targets and a config list: the extra target comes last
C25_Witness ==
    /\ GotTargets
    /\ Len(call_in.targets) = 2 /\ call_in.configs # <<>> /\ call_in.server = <<>>
    /\ Len(call_out[1].targets) = 3

\* explicit targets only: nothing is appended
C25_WitnessNoExtra ==
    /\ GotTargets
    /\ Len(call_in.targets) = 1
    /\ Len(call_out[1].targets) = 1

\* the unbounded sum of offset and count does not fit in 32 bits
Wraps(offset, count) ==
    offset[1] + count[1] + ((offset[2] + count[2]) \div Limb) >= Limb

\* x <= n, for n below 2^16
AtMost(x, n) == x[1] = 0 /\ x[2] <= n

InsertedBits == callee = "insert_bits" /\ call_pc = "returned"

\* C26: the generated insertBits wrapper hands e and newbits on as they are;
\* when offset + count fits in 32 bits it hands on offset and count unchanged;
\* when the sum wraps it hands on min(offset, 32) and
\* min(count, 32 - min(offset, 32)), whose sum is at most 32; and the
\* subtraction 32 - min(offset, 32) never goes below zero
C26_InsertBitsClampsOnlyOnWrap ==
    InsertedBits =>
        LET offset == call_in.offset
            count == call_in.count
            out == call_out[1]
            min_offset == IF AtMost(offset, 32) THEN offset ELSE << 0, 32 >>
            room == 32 - min_offset[2]
            min_count == IF AtMost(count, room) THEN count ELSE << 0, room >>
        IN  /\ out.fn = "insertBits"
            /\ out.e = call_in.e /\ out.newbits = call_in.newbits
            /\ ~Wraps(offset, count) =>
                   out.offset = offset /\ out.count = count
            /\ Wraps(offset, count) =>
                   /\ out.offset = min_offset /\ out.count = min_count
                   /\ out.offset[1] = 0 /\ out.count[1] = 0
                   /\ out.offset[2] + out.count[2] <= 32
            /\ AtMost(safe_offset(offset), 32)
            /\ remaining_space(offset) = << 0, room >>

\* the sum wraps and both arguments are clamped: offset 2^32 - 1 becomes 32
\* and count 33 becomes 0
C26_Witness ==
    /\ InsertedBits
    /\ Wraps(call_in.offset, call_in.count)
    /\ call_in.offset = << Limb - 1, Limb - 1 >> /\ call_in.count = << 0, 33 >>
    /\ call_out[1].offset = << 0, 32 >> /\ call_out[1].count = << 0, 0 >>

\* the sum does not wrap and is handed on although it exceeds the width
C26_WitnessRaw ==
    /\ InsertedBits
    /\ call_in.offset = << 0, 33 >> /\ call_in.count = << 0, 1 >>
    /\ call_out[1].offset = << 0, 33 >> /\ call_out[1].count = << 0, 1 >>

ExtractedBits(f) == callee = f /\ call_pc = "returned"

\* the wrapper returned the zero of its type
ReturnsZero ==
    /\ "components" \in DOMAIN call_out[1]
    /\ call_out[1].data_type = call_in.e.data_type
    /\ DOMAIN call_out[1].components = DOMAIN call_in.e.components
    /\ \A i \in DOMAIN call_out[1].components : call_out[1].components[i] = 0

\* the wrapper returned the builtin's result for its own arguments
ReturnsExtractBits ==
    /\ "fn" \in DOMAIN call_out[1]
    /\ call_out[1].fn = "extractBits"
    /\ call_out[1].e = call_in.e
    /\ call_out[1].offset = call_in.offset
    /\ call_out[1].count = call_in.count

C27_WitnessPositive ==
    /\ ExtractedBits("extract_bits")
    /\ call_in.e = Vector(<< 1, 0 >>)
    /\ call_in.offset = << 0, 32 >> /\ call_in.count = << 0, 1 >>
    /\ ReturnsExtractBits

\* the unsigned wrapper on a wrapping sum
C27_WitnessUnsigned ==
    /\ ExtractedBits("extract_bits_unsigned")
    /\ call_in.offset = << Limb - 1, Limb - 32 >> /\ call_in.count = << 0, 32 >>
    /\ ReturnsZero

====
